---- MODULE Spec2Model ----
(***************************************************************************)
(* A model of connet's control plane: the keyed append-only log (logc.kv)  *)
(* and the control server's relay state built on top of it.                *)
(*                                                                         *)
(* Each subsystem has its own specification over the shared variables:     *)
(*   Spec        logc.kv: Put, Del, Get and Snapshot against writers       *)
(*   SpecConsume logc.kv: Put, Del and chained blocking Consume            *)
(*   SpecInit    logc.kv: concurrent GetOrInit calls on the config log     *)
(*   SpecFwd     control: relay-servers log, forwards cache, getForward    *)
(*   SpecRC      control: relay-clients log, Client sessions, the clients  *)
(*               stream served to a relay                                  *)
(*   SpecRS      control: the servers stream of one relay and its offset   *)
(*   SpecAuth    control: authentication of relay and client connections   *)
(*   SpecGap     control: the clients stream over a log that lost records  *)
(*   SpecId      control: the server id over restarts                      *)
(*   SpecPool    relay: the servers log consumed into serverByName         *)
(*   SpecDirect  client: DirectServer's expectations and runConn           *)
(*   SpecLock    the mutexes of the forwards cache and of vServer          *)
(*   SpecClient  client and relay: run, connect, reconnect with backoff    *)
(*   SpecSourceLive client: the tasks of Source.RunControl, with fairness  *)
(*   SpecData    client: Source.runConn and destinationsDialer.runRequest  *)
(*   SpecRoute   client: what a RouteOption lets a Source advertise        *)
(*   SpecListen  control: the listener and its relay connections           *)
(*   SpecWatch   control: listen over the relay-servers log and the cache  *)
(*   SpecStream  control: the clients stream answered from Snapshot        *)
(*   SpecSwitch  relay: the state directory per control server id          *)
(*   SpecGroupLive relay and control: the tasks of a connection, with      *)
(*               fairness                                                  *)
(*   SpecReplayLive relay: the clients and servers logs over reconnects    *)
(*   SpecCA      client: expectConn, runConn and updateClientCA by step    *)
(*   SpecConns   client and relay: the connections a run dials and closes  *)
(***************************************************************************)
EXTENDS Integers, Sequences, FiniteSets, TLC

(***************************************************************************)
(* Bounds and small domains                                                *)
(***************************************************************************)
\* the longest log the writers build
MaxLog == 3
\* the batch size handed to klevdb's Consume; the code passes 32, the model
\* a small number so that a log spans several batches
MaxCount == 2

Keys == {"k1", "k2"}
Values == {"v1", "v2"}
Consumers == {"c1", "c2"}
Callers == {"p1", "p2"}
ConfigKeys == {"server-id", "server-client-secret"}
Forwards == {"f1", "f2"}
HostPorts == {"h1", "h2"}
Certs == {"cert1", "cert2"}
\* what the relays publish: relay h1 serves f1, with a certificate it
\* rotates, and f2; relay h2 serves f1
Published == {<<"f1", "h1", "cert1">>, <<"f1", "h1", "cert2">>,
              <<"f1", "h2", "cert1">>, <<"f2", "h1", "cert1">>}
Roles == {"Destination", "Source"}
Readers == {"rd1"}
\* what the clients register with relayServer.Client: one certificate under
\* both roles of f1, and another certificate for f2
Registered == {<<"f1", "Destination", "cert1">>, <<"f1", "Source", "cert1">>,
               <<"f2", "Destination", "cert2">>}
Sessions == {"s1", "s2"}

\* klevdb's offset sentinels, re-exported by logc
OffsetInvalid == -3
OffsetOldest == -2
OffsetNewest == -1

\* error values
Nil == "nil"
ErrNotFound == "ErrNotFound"
\* Go's zero value of V ("var v V")
Zero == "zero"

VARIABLES
    \* ---- logc.kv under writers, Snapshot and Consume
    log,        \* the klevdb log: a sequence of TMessage, offset i at index i+1
    last,       \* per key, the value of the latest Put, or ErrNotFound (reference)
    snapPc,     \* position of the Snapshot call: "idle", "loop", "done"
    snapMax,    \* Snapshot's maxOffset
    snapOff,    \* Snapshot's loop cursor
    snapSum,    \* Snapshot's sum map
    snapRes,    \* the returned list
    snapNext,   \* the returned next offset
    snapEndLen, \* the log's length when Snapshot returned
    cOff,       \* per consumer, the offset of its next Consume call
    cReq,       \* per consumer, the offset its last call asked for
    cBatch,     \* per consumer, the batch its last call returned
    cRetLen,    \* per consumer, the log's length when its last call returned
    cSeen,      \* per consumer, every message delivered so far
    cMap,       \* per consumer, the map it built from the messages
    \* ---- the config log under GetOrInit
    cfg,        \* the config log
    goiPc,      \* per caller: "idle", "init", "put", "done"
    goiKey,     \* per caller, the key of its call
    goiNv,      \* per caller, the value its init function produced
    goiRet,     \* per caller, the value its call returned
    \* ---- control server: relay-servers log and its materializer
    relayServers,   \* the relay-servers log, (forward, hostport) -> certificate
    forwardsCache,  \* forward -> hostport -> certificate
    forwardsOffset, \* the watermark of forwardsCache
    runPc,          \* relayServer.run: "read", "consume", "update", "setoff"
    runOffset,      \* run's local offset
    runMsgs,        \* the messages of run's batch not yet applied
    runNext,        \* the next offset run's Consume returned
    gf,             \* per reader, what its last getForward call returned
    \* ---- control server: relay-clients log, Client sessions, clients stream
    relayClients,   \* the relay-clients log, (forward, role, key) -> certificate
    sess,           \* per session, the key of its running Client call, or NoSession
    relayAuth,      \* the forwards the relay's token allows, or NoAuth before
                    \* its first authentication
    connected,      \* whether the relay's connection is up
    relayOffset,    \* the clients offset the relay has stored
    resp,           \* the last ClientsResp written to the relay, or NoResp
    respReq,        \* the offset of the ClientsReq it answers
    rcPc,           \* the clients stream: "idle", or "resp" while a ClientsResp
                    \* is on its way to the relay
    clients,        \* the relay's clients log, (forward, role, key) -> certificate
    \* ---- the servers stream: relay's servers log -> control's relay-servers
    servers,            \* the relay's servers log, forward -> server certificate
    relayServerOffsets, \* the control's relay-server-offsets log, hostport -> offset
    rsPc,               \* runRelayServers: "read", "sent", "snap", "apply"
    rsReq,              \* the offset of the ServersReq in flight
    rsSnapMax,          \* maxOffset of the relay's running Snapshot
    rsResp,             \* the ServersResp the control server is applying
    rsIdx,              \* how many changes of rsResp have been applied
    rsAcked,            \* the offset of the last setRelayServerOffset that returned
    rsSince,            \* records appended to relay-servers since that call
    rsFaults,           \* crashes and reconnects so far
    \* ---- authentication of a connection to the control server
    aPc,        \* per connection: "new", "serving", "closed"
    aToken,     \* per connection, the token its first stream presented
    aRejected,  \* per connection, whether Authenticate rejected that token
    aClose,     \* per connection, <<code>> once CloseWithError(code) was called
    aServed,    \* per connection, the streams served after authentication
    \* ---- the clients stream over a relay-clients log that lost records
    gapLog,     \* the relay-clients log, every record ever appended
    gapBase,    \* the records with offset below gapBase are gone from the log
    gapOffset,  \* the clients offset the relay has stored
    gapPc,      \* "idle", or "resp" while a ClientsResp is on its way
    gapReq,     \* the offset of the ClientsReq being answered
    gapMsgs,    \* the messages Snapshot or Consume returned for it
    gapResp,    \* the ClientsResp written for it
    \* ---- the control server's id over restarts
    srvId,          \* relayServer.id, Zero while the server is not up
    idReported,     \* every ControlId an AuthenticateResp has carried
    relayStateId,   \* per relay, the id of the controlServerState it holds
    idStops,        \* how many times the control server's process has ended
    \* ---- relay: the servers log consumed into serverByName
    srvLog,         \* the servers records runClientsLog has Put: name and clients
    serverByName,   \* server name -> relayServer (its cas pool and clients map)
    poolOffset,     \* how many records runServersLog has consumed
    poolPanic,      \* the relay's process has panicked
    poolLast,       \* the last record upsert was called with, or NoRecord
    hsPool,         \* the ClientCAs the last handshake loaded, or NoPool
    \* ---- client: DirectServer, one vServer
    vClients,   \* srv.clients: certificate key -> the channel of its expectation
    clientCA,   \* srv.clientCA: the certificates a handshake accepts
    chans,      \* the channels expectConn has made: key, open or closed, and
                \* the connections received from it
    dconn,      \* per connection: its position in runConn, peer key, the
                \* expectation it dequeued, its close code
    \* ---- the mutexes: relayServer.forwardsMu and vServer.mu
    forwardsMu, \* who holds forwardsMu: the writer, or NoTask, and the readers
    vMu,        \* who holds vServer.mu
    lkPc,       \* per task, its position
    lkAvail,    \* records of relay-servers at or after run's offset
    lkBatch,    \* messages of run's batch not yet passed to update
    lkExp,      \* whether srv.clients holds an expectation
    lkWaiter,   \* whether a waiter is receiving from the expectation's channel
    \* ---- Client.run and the relay's controlClient.run
    clPc,       \* per runner: "connect0", "session", "select", "parked",
                \* "connect", "returned", "panic"
    clDone,     \* per runner, whether its context is cancelled
    clErr,      \* per runner, the error run returned
    clDials,    \* per runner, the dials made so far
    clRetoken,  \* per runner, run's retoken variable (0 is nil)
    clGranted,  \* per runner, the reconnect token of the latest successful
                \* authentication (0 before the first)
    clSent,     \* per runner, <<ReconnectToken presented by the latest dial,
                \* clGranted when it was made>>
    clDelay,    \* per runner, reconnect's d
    clFired,    \* per runner, whether reconnect's timer has fired
    clFails,    \* per runner, the failed attempts of the running reconnect
    clCut,      \* per runner, the dials made when the context was cancelled
                \* under a parked reconnect, or -1
    \* ---- Source.RunControl: one control stream and its three tasks
    scPc,       \* RunControl: "open", "running", "returned"
    scOuter,    \* whether RunControl's context is cancelled
    scCtx,      \* whether the errgroup's context is cancelled
    scSup,      \* the supervisor: "wait", "done"
    scWr,       \* the self-descriptor writer: "listen", "write", "done"
    scRd,       \* the peers reader: "read", "done"
    scCancelRead, \* whether stream.CancelRead(0) was called
    scWrites,   \* the self descriptors written
    scReads,    \* the peers responses read
    \* ---- Source.runConn for one TCP connection at a time
    tcPc,       \* "idle", "write", "read", "join", "closed"
    tcActive,   \* per active connection in order, whether OpenStreamSync succeeds
    tcStream,   \* the index of the connection whose stream is used, 0 for none
    tcWrote,    \* whether the Connect request was written
    tcResp,     \* what reading the response gave, Nil before it
    tcJoined,   \* whether netc.Join was called
    tcErr,      \* the error runConnErr returned, Nil for none
    \* ---- destinationsDialer.runRequest for one stream at a time
    ddPc,       \* "idle", "respond", "join", "closed"
    ddReq,      \* the request read
    ddResps,    \* the Responses passed to pb.Write, in order
    ddDialed,   \* whether net.Dial was called
    ddJoined,   \* whether netc.Join was called
    \* ---- the self descriptor of one Source per RouteOption
    rtDirect,   \* per option, the direct route of the self descriptor, Nil if unset
    rtRelays,   \* per option, the relays of the self descriptor
    rtOpen,     \* per option, whether RunRelay's stream is open
    rtCalls,    \* per option, the calls of SetDirectAddrs so far
    rtOpened,   \* per option, the streams RunRelay has opened so far
    \* ---- control server: the listener and its relay connections
    lsPc,       \* Server.runListener: "accept", "returned"
    lsCtx,      \* whether the context of Server.Run is cancelled
    lsAccepts,  \* the relay connections accepted so far
    rlPc,       \* per relay, its relayConn: "none", "auth", "running", "closed"
    rlOffset,   \* per relay, the offset stored in relay-server-offsets
    rlClose,    \* per relay, <<code>> of the CloseWithError of its connection
    \* ---- control server: relayServer.listen
    ln,         \* per reader, its listen call: position, forward, its servers
                \* map, its offset, whether the map shares the cache's
                \* storage, and whether its last step called notifyFn(servers)
    \* ---- control server: runRelayClients with kv.Snapshot step by step
    stMax,      \* Snapshot's maxOffset
    stOff,      \* Snapshot's offset
    stSum,      \* Snapshot's sum
    stMsgs,     \* the offsets of the messages the changes of resp were built from
    \* ---- relay: controlClient.setServerID and the state per control server
    swState,    \* s.state: Nil, or the id of the state it points to
    swOpen,     \* the ids whose logs (config, clients, servers) are open
    swDisk,     \* per id, the client offset stored in the config log of its directory
    swGiven,    \* per id, the offset of the last ClientsResp of that control
                \* server the relay has stored
    swPc,       \* controlClient.run: "idle", "connected", "running"
    swServerID, \* the ControlId of the connection
    swUsed,     \* the id of the state runConnection's tasks run on
    swReq,      \* the last ClientsReq: <<ControlId of the connection, offset>>
    \* ---- one relay session: the control server's relayConn and the relay's
    \* runConnection, at the two ends of one connection
    gPc,        \* per task: "run", "read" (in pb.Read), "consume" (in Consume), "done"
    gCtx,       \* per side, whether the errgroup's context is cancelled
    gRet,       \* per side, whether runErr / runConnection has returned
    gConn,      \* the connection: "open" or "closed"
    gMsg,       \* per stream direction, the messages written and not yet read
    gFin,       \* per stream direction, whether its writer has closed the stream
    gStop,      \* per stream direction, whether its reader has called CancelRead
    gData,      \* per served log, whether a record is ready for Consume
    gFirst,     \* per side, the task that returned first
    \* ---- relay: runClientsLog and runServersLog over the clients and the
    \* servers log of one controlServerState
    rpClients,  \* the clients log, (forward, role, key) -> certificate
    rpServers,  \* the servers log, forward -> (name, clients)
    rpGen,      \* the number of server names generated
    rpCOff,     \* runClientsLog's offset
    rpCHigh,    \* the highest offset runClientsLog has reached in any session
    rpSOff,     \* runServersLog's offset
    rpByName,   \* serverByName
    rpDown,     \* Nil, or how runServersLog ended: "panic" or "error"
    \* ---- client: one vServer under concurrent expectConn and runConn calls,
    \* one step per critical section
    caMu,       \* vServer.mu
    caClients,  \* vServer.clients: key -> channel of the expectation
    caChans,    \* the channels made: key, how often closed and by whom, what
                \* was received from it, whether a send came after a close
    caPool,     \* vServer.clientCA: the keys of the certificates in the pool
    caPc,       \* per call: its position
    caKey,      \* per call: the key of its certificate
    caExp,      \* per runConn: the channel dequeue returned
    caSnap,     \* per call: the pool updateClientCA has built
    \* ---- client and relay: the control connections of one run
    cnPc,       \* per runner: "connect0", "session", "connect", "returned", "panic"
    cnConn,     \* per runner: run's conn variable, the number of its dial (0 is nil)
    cnOpen,     \* per runner: the connections dialled and not closed
    cnEnded,    \* per runner: the connections whose runConnection has returned
    cnDials,    \* per runner: the dials made so far
    cnDone      \* per runner: whether its context is cancelled

snapVars == <<snapPc, snapMax, snapOff, snapSum, snapRes, snapNext, snapEndLen>>
logVars == <<log, last>>
consVars == <<cOff, cReq, cBatch, cRetLen, cSeen, cMap>>
initVars == <<cfg, goiPc, goiKey, goiNv, goiRet>>

fwdVars == <<relayServers, forwardsCache, forwardsOffset, runPc, runOffset, runMsgs,
             runNext, gf>>
rcVars == <<relayClients, sess, relayAuth, connected, relayOffset, resp, respReq, rcPc,
           clients>>
fwdRest == <<forwardsCache, forwardsOffset, runPc, runOffset, runMsgs, runNext, gf>>
rsVars == <<servers, relayServerOffsets, rsPc, rsReq, rsSnapMax, rsResp, rsIdx, rsAcked,
            rsSince, rsFaults>>

\* the variables outside each subsystem
authVars == <<aPc, aToken, aRejected, aClose, aServed>>
gapVars == <<gapLog, gapBase, gapOffset, gapPc, gapReq, gapMsgs, gapResp>>
idVars == <<srvId, idReported, relayStateId, idStops>>
poolVars == <<srvLog, serverByName, poolOffset, poolPanic, poolLast, hsPool>>
directVars == <<vClients, clientCA, chans, dconn>>
lockVars == <<forwardsMu, vMu, lkPc, lkAvail, lkBatch, lkExp, lkWaiter>>
clientVars == <<clPc, clDone, clErr, clDials, clRetoken, clGranted, clSent, clDelay, clFired, clFails, clCut>>
sourceVars == <<scPc, scOuter, scCtx, scSup, scWr, scRd, scCancelRead, scWrites, scReads>>
dataVars == <<tcPc, tcActive, tcStream, tcWrote, tcResp, tcJoined, tcErr, ddPc, ddReq, ddResps, ddDialed, ddJoined>>
routeVars == <<rtDirect, rtRelays, rtOpen, rtCalls, rtOpened>>
listenVars == <<lsPc, lsCtx, lsAccepts, rlPc, rlOffset, rlClose>>
watchVars == <<ln>>
streamVars == <<stMax, stOff, stSum, stMsgs>>
switchVars == <<swState, swOpen, swDisk, swGiven, swPc, swServerID, swUsed, swReq>>
groupVars == <<gPc, gCtx, gRet, gConn, gMsg, gFin, gStop, gData, gFirst>>
replayVars == <<rpClients, rpServers, rpGen, rpCOff, rpCHigh, rpSOff, rpByName, rpDown>>
caVars == <<caMu, caClients, caChans, caPool, caPc, caKey, caExp, caSnap>>
connsVars == <<cnPc, cnConn, cnOpen, cnEnded, cnDials, cnDone>>
later == <<rsVars, authVars, gapVars, idVars, poolVars, directVars, lockVars, clientVars, sourceVars, dataVars, routeVars, listenVars, watchVars, streamVars, switchVars, groupVars, replayVars, caVars, connsVars>>
outsideConns == <<logVars, snapVars, consVars, initVars, fwdVars, rcVars,
    rsVars, authVars, gapVars, idVars, poolVars, directVars, lockVars, clientVars, sourceVars, dataVars, routeVars, listenVars, watchVars, streamVars, switchVars, groupVars, replayVars, caVars>>

outsideCA == <<logVars, snapVars, consVars, initVars, fwdVars, rcVars,
    rsVars, authVars, gapVars, idVars, poolVars, directVars, lockVars, clientVars, sourceVars, dataVars, routeVars, listenVars, watchVars, streamVars, switchVars, groupVars, replayVars, connsVars>>

outsideReplay == <<logVars, snapVars, consVars, initVars, fwdVars, rcVars,
    rsVars, authVars, gapVars, idVars, poolVars, directVars, lockVars, clientVars, sourceVars, dataVars, routeVars, listenVars, watchVars, streamVars, switchVars, groupVars, caVars, connsVars>>

outsideGroup == <<logVars, snapVars, consVars, initVars, fwdVars, rcVars,
    rsVars, authVars, gapVars, idVars, poolVars, directVars, lockVars, clientVars, sourceVars, dataVars, routeVars, listenVars, watchVars, streamVars, switchVars, replayVars, caVars, connsVars>>

outsideSwitch == <<logVars, snapVars, consVars, initVars, fwdVars, rcVars,
    rsVars, authVars, gapVars, idVars, poolVars, directVars, lockVars, clientVars, sourceVars, dataVars, routeVars, listenVars, watchVars, streamVars, groupVars, replayVars, caVars, connsVars>>

outsideStream == <<logVars, snapVars, consVars, initVars, fwdVars,
    rsVars, authVars, gapVars, idVars, poolVars, directVars, lockVars, clientVars, sourceVars, dataVars, routeVars, listenVars, watchVars, switchVars, groupVars, replayVars, caVars, connsVars>>

outsideWatch == <<logVars, snapVars, consVars, initVars, rcVars,
    rsVars, authVars, gapVars, idVars, poolVars, directVars, lockVars, clientVars, sourceVars, dataVars, routeVars, listenVars, streamVars, switchVars, groupVars, replayVars, caVars, connsVars>>
fwdRest2 == <<forwardsOffset, runPc, runOffset, runMsgs, runNext, gf>>

outsideListen == <<logVars, snapVars, consVars, initVars, fwdVars, rcVars,
    rsVars, authVars, gapVars, idVars, poolVars, directVars, lockVars, clientVars, sourceVars, dataVars, routeVars, watchVars, streamVars, switchVars, groupVars, replayVars, caVars, connsVars>>

outsideRoute == <<logVars, snapVars, consVars, initVars, fwdVars, rcVars,
    rsVars, authVars, gapVars, idVars, poolVars, directVars, lockVars, clientVars, sourceVars, dataVars, listenVars, watchVars, streamVars, switchVars, groupVars, replayVars, caVars, connsVars>>

outsideData == <<logVars, snapVars, consVars, initVars, fwdVars, rcVars,
    rsVars, authVars, gapVars, idVars, poolVars, directVars, lockVars, clientVars, sourceVars, routeVars, listenVars, watchVars, streamVars, switchVars, groupVars, replayVars, caVars, connsVars>>

outsideSource == <<logVars, snapVars, consVars, initVars, fwdVars, rcVars,
    rsVars, authVars, gapVars, idVars, poolVars, directVars, lockVars, clientVars, dataVars, routeVars, listenVars, watchVars, streamVars, switchVars, groupVars, replayVars, caVars, connsVars>>

outsideClient == <<logVars, snapVars, consVars, initVars, fwdVars, rcVars,
    rsVars, authVars, gapVars, idVars, poolVars, directVars, lockVars, sourceVars, dataVars, routeVars, listenVars, watchVars, streamVars, switchVars, groupVars, replayVars, caVars, connsVars>>

outsideLock == <<logVars, snapVars, consVars, initVars, fwdVars, rcVars,
    rsVars, authVars, gapVars, idVars, poolVars, directVars, clientVars, sourceVars, dataVars, routeVars, listenVars, watchVars, streamVars, switchVars, groupVars, replayVars, caVars, connsVars>>

outsideDirect == <<logVars, snapVars, consVars, initVars, fwdVars, rcVars, rsVars, authVars,
                   gapVars, idVars, poolVars, lockVars, clientVars, sourceVars, dataVars, routeVars, listenVars, watchVars, streamVars, switchVars, groupVars, replayVars, caVars, connsVars>>
outsidePool == <<logVars, snapVars, consVars, initVars, fwdVars, rcVars, rsVars, authVars,
                 gapVars, idVars, directVars, lockVars, clientVars, sourceVars, dataVars, routeVars, listenVars, watchVars, streamVars, switchVars, groupVars, replayVars, caVars, connsVars>>
outsideId == <<logVars, snapVars, consVars, fwdVars, rcVars, rsVars, authVars, gapVars,
    poolVars, directVars, lockVars, clientVars, sourceVars, dataVars, routeVars, listenVars, watchVars, streamVars, switchVars, groupVars, replayVars, caVars, connsVars>>
outsideGap == <<logVars, snapVars, consVars, initVars, fwdVars, rcVars, rsVars, authVars, idVars,
    poolVars, directVars, lockVars, clientVars, sourceVars, dataVars, routeVars, listenVars, watchVars, streamVars, switchVars, groupVars, replayVars, caVars, connsVars>>
outsideAuth == <<logVars, snapVars, consVars, initVars, fwdVars, rcVars, rsVars, gapVars, idVars,
    poolVars, directVars, lockVars, clientVars, sourceVars, dataVars, routeVars, listenVars, watchVars, streamVars, switchVars, groupVars, replayVars, caVars, connsVars>>
vars == <<logVars, snapVars, consVars, initVars, fwdVars, rcVars, later>>
outsideLog == <<initVars, fwdVars, rcVars, later>>
outsideInit == <<logVars, snapVars, consVars, fwdVars, rcVars, later>>
outsideFwd == <<logVars, snapVars, consVars, initVars, rcVars, later>>
outsideRC == <<logVars, snapVars, consVars, initVars, fwdVars, later>>
outsideRS == <<logVars, snapVars, consVars, initVars, fwdRest, rcVars, authVars, gapVars,
               idVars, poolVars, directVars, lockVars, clientVars, sourceVars, dataVars, routeVars, listenVars, watchVars, streamVars, switchVars, groupVars, replayVars, caVars, connsVars>>

(***************************************************************************)
(* klevdb, as logc uses it                                                 *)
(***************************************************************************)
Min(a, b) == IF a < b THEN a ELSE b

\* Publish of one message: appended at the next offset
Publish(l, m) ==
    Append(l, [Offset |-> Len(l), Key |-> m.Key, Value |-> m.Value,
               ValueEmpty |-> m.ValueEmpty])

NextOffset(l) == Len(l)

\* GetByKey: the latest message of the key, or ErrNotFound
GetByKey(l, k) ==
    LET idx == {i \in 1..Len(l) : l[i].Key = k}
    IN  IF idx = {}
        THEN [err |-> ErrNotFound]
        ELSE [err |-> Nil, msg |-> l[CHOOSE i \in idx : \A j \in idx : j <= i]]

\* Log.Consume(offset, maxCount): the messages from offset on, at most
\* maxCount of them, and the offset after the last one
LogConsume(l, offset, maxCount) ==
    LET start == IF offset = OffsetOldest THEN 0
                 ELSE IF offset = OffsetNewest THEN Len(l)
                 ELSE offset
        end == Min(start + maxCount, Len(l))
    IN  [next |-> IF end < start THEN start ELSE end,
         msgs |-> SubSeq(l, start + 1, end)]

\* OffsetNotify.Wait(offset) returns once the next offset is above offset
WaitReady(l, offset) == NextOffset(l) > offset

(***************************************************************************)
(* logc.kv                                                                 *)
(***************************************************************************)
Put(l, k, v) == Publish(l, [Key |-> k, Value |-> v, ValueEmpty |-> FALSE])

Del(l, k) == Publish(l, [Key |-> k, Value |-> Zero, ValueEmpty |-> TRUE])

GetNoTombstone(l, k) ==
    LET r == GetByKey(l, k)
    IN  IF r.err # Nil THEN [v |-> Zero, err |-> r.err]
        ELSE [v |-> r.msg.Value, err |-> Nil]

Get(l, k) ==
    LET r == GetByKey(l, k)
    IN  IF r.err # Nil THEN [v |-> Zero, err |-> r.err]
        ELSE IF r.msg.ValueEmpty THEN [v |-> Zero, err |-> ErrNotFound]
        ELSE [v |-> r.msg.Value, err |-> Nil]

\* the Message Snapshot stores for a Put
SnapMessage(msg) ==
    [Offset |-> msg.Offset, Key |-> msg.Key, Value |-> msg.Value, Delete |-> FALSE]

MapDelete(m, k) == [x \in (DOMAIN m) \ {k} |-> m[x]]
MapSet(m, k, v) == [x \in (DOMAIN m) \cup {k} |-> IF x = k THEN v ELSE m[x]]
EmptyMap == [x \in {} |-> Zero]

SnapApplyKeepTombstone(sum, msg) == MapSet(sum, msg.Key, SnapMessage(msg))

\* the body of Snapshot's inner loop for one message
SnapApply(sum, msg) ==
    IF msg.ValueEmpty
    THEN MapDelete(sum, msg.Key)
    ELSE MapSet(sum, msg.Key, SnapMessage(msg))

RECURSIVE SnapFold(_, _)
SnapFold(sum, msgs) ==
    IF msgs = <<>> THEN sum
    ELSE SnapFold(SnapApply(sum, Head(msgs)), Tail(msgs))

\* slices.SortedFunc(maps.Values(sum), by Offset)
RECURSIVE SortedByOffset(_)
SortedByOffset(S) ==
    IF S = {} THEN <<>>
    ELSE LET m == CHOOSE x \in S : \A y \in S : x.Offset <= y.Offset
         IN  <<m>> \o SortedByOffset(S \ {m})

MapValues(m) == {m[x] : x \in DOMAIN m}

\* the sum Snapshot has when its loop ends, run without interleaving
RECURSIVE SnapLoop(_, _, _, _)
SnapLoop(l, offset, maxOffset, sum) ==
    IF offset < maxOffset
    THEN LET r == LogConsume(l, offset, MaxCount)
         IN  SnapLoop(l, r.next, maxOffset, SnapFold(sum, r.msgs))
    ELSE sum

\* kv.Snapshot run without interleaving
Snapshot(l) ==
    LET maxOffset == NextOffset(l)
    IN  [msgs |-> SortedByOffset(MapValues(SnapLoop(l, OffsetOldest, maxOffset, EmptyMap))),
         next |-> maxOffset]

ToMessageNoDelete(msg) ==
    [Offset |-> msg.Offset, Key |-> msg.Key, Value |-> msg.Value, Delete |-> FALSE]

\* the Message Consume builds from a klevdb message
ToMessage(msg) ==
    [Offset |-> msg.Offset, Key |-> msg.Key, Value |-> msg.Value,
     Delete |-> msg.ValueEmpty]

\* kv.Consume once ConsumeBlocking's wait is over
Consume(l, offset) ==
    LET r == LogConsume(l, offset, MaxCount)
    IN  [msgs |-> [i \in DOMAIN r.msgs |-> ToMessage(r.msgs[i])], next |-> r.next]

(***************************************************************************)
(* Writers of the log                                                      *)
(***************************************************************************)
DoPut(k, v) ==
    /\ Len(log) < MaxLog
    /\ log' = Put(log, k, v)
    /\ last' = [last EXCEPT ![k] = v]
    /\ UNCHANGED <<snapVars, consVars, outsideLog>>

DoDel(k) ==
    /\ Len(log) < MaxLog
    /\ log' = Del(log, k)
    /\ last' = [last EXCEPT ![k] = ErrNotFound]
    /\ UNCHANGED <<snapVars, consVars, outsideLog>>

(***************************************************************************)
(* kv.Snapshot, one step per klevdb call                                   *)
(***************************************************************************)
\* maxOffset, err := l.log.NextOffset(); sum := map{}; offset := OffsetOldest
SnapStart ==
    /\ snapPc = "idle"
    /\ snapPc' = "loop"
    /\ snapMax' = NextOffset(log)
    /\ snapOff' = OffsetOldest
    /\ snapSum' = EmptyMap
    /\ UNCHANGED <<logVars, snapRes, snapNext, snapEndLen, consVars, outsideLog>>

\* one iteration of "for offset < maxOffset": Consume and fold the batch
SnapConsume ==
    /\ snapPc = "loop"
    /\ snapOff < snapMax
    /\ LET r == LogConsume(log, snapOff, MaxCount)
       IN  /\ snapOff' = r.next
           /\ snapSum' = SnapFold(snapSum, r.msgs)
    /\ UNCHANGED <<logVars, snapPc, snapMax, snapRes, snapNext, snapEndLen,
                   consVars, outsideLog>>

\* the loop ends: return the sorted values and maxOffset
SnapReturn ==
    /\ snapPc = "loop"
    /\ ~(snapOff < snapMax)
    /\ snapPc' = "done"
    /\ snapRes' = SortedByOffset(MapValues(snapSum))
    /\ snapNext' = snapMax
    /\ snapEndLen' = Len(log)
    /\ UNCHANGED <<logVars, snapMax, snapOff, snapSum, consVars, outsideLog>>

\* the caller drops the result and may call Snapshot again
SnapReset ==
    /\ snapPc = "done"
    /\ snapPc' = "idle"
    /\ snapMax' = 0
    /\ snapOff' = OffsetOldest
    /\ snapSum' = EmptyMap
    /\ snapRes' = <<>>
    /\ snapNext' = OffsetInvalid
    /\ snapEndLen' = 0
    /\ UNCHANGED <<logVars, consVars, outsideLog>>

(***************************************************************************)
(* Consumers: chained kv.Consume calls, each message applied to a map      *)
(***************************************************************************)
\* a Put sets the key, a Delete removes it
Apply(m, msg) ==
    IF msg.Delete THEN MapDelete(m, msg.Key) ELSE MapSet(m, msg.Key, msg.Value)

RECURSIVE ApplyAll(_, _)
ApplyAll(m, msgs) ==
    IF msgs = <<>> THEN m ELSE ApplyAll(Apply(m, Head(msgs)), Tail(msgs))

\* the offsets a consumer starts from: the oldest record, by sentinel or by
\* number
StartOffsets == {OffsetOldest, 0}

\* one kv.Consume(ctx, from) call of consumer c: its first call starts from
\* a start offset, every later one from the offset the last call returned
ConsumeCall(c, from) ==
    /\ IF cOff[c] = OffsetInvalid THEN from \in StartOffsets ELSE from = cOff[c]
    /\ WaitReady(log, from)
    /\ LET r == Consume(log, from)
       IN  /\ cReq' = [cReq EXCEPT ![c] = from]
           /\ cBatch' = [cBatch EXCEPT ![c] = r.msgs]
           /\ cOff' = [cOff EXCEPT ![c] = r.next]
           /\ cSeen' = [cSeen EXCEPT ![c] = @ \o r.msgs]
           /\ cMap' = [cMap EXCEPT ![c] = ApplyAll(@, r.msgs)]
    /\ cRetLen' = [cRetLen EXCEPT ![c] = Len(log)]
    /\ UNCHANGED <<logVars, snapVars, outsideLog>>

(***************************************************************************)
(* kv.GetOrInit on the config log, one step per kv call                    *)
(***************************************************************************)
GoiGetNeverFound(p, k) ==
    /\ goiPc[p] = "idle"
    /\ goiKey' = [goiKey EXCEPT ![p] = k]
    /\ goiPc' = [goiPc EXCEPT ![p] = "init"]
    /\ UNCHANGED <<cfg, goiNv, goiRet, outsideInit>>

\* switch v, err := l.Get(k): found returns v, ErrNotFound goes on to fn
GoiGet(p, k) ==
    /\ goiPc[p] = "idle"
    /\ goiKey' = [goiKey EXCEPT ![p] = k]
    /\ LET r == Get(cfg, k)
       IN  IF r.err = Nil
           THEN /\ goiPc' = [goiPc EXCEPT ![p] = "done"]
                /\ goiRet' = [goiRet EXCEPT ![p] = r.v]
           ELSE /\ goiPc' = [goiPc EXCEPT ![p] = "init"]
                /\ UNCHANGED goiRet
    /\ UNCHANGED <<cfg, goiNv, outsideInit>>

\* nv, err := fn(k)
GoiInit(p, v) ==
    /\ goiPc[p] = "init"
    /\ goiPc' = [goiPc EXCEPT ![p] = "put"]
    /\ goiNv' = [goiNv EXCEPT ![p] = v]
    /\ UNCHANGED <<cfg, goiKey, goiRet, outsideInit>>

\* l.Put(k, nv); return nv
GoiPut(p) ==
    /\ goiPc[p] = "put"
    /\ cfg' = Put(cfg, goiKey[p], goiNv[p])
    /\ goiPc' = [goiPc EXCEPT ![p] = "done"]
    /\ goiRet' = [goiRet EXCEPT ![p] = goiNv[p]]
    /\ UNCHANGED <<goiKey, goiNv, outsideInit>>

\* the caller is free for another call
GoiDone(p) ==
    /\ goiPc[p] = "done"
    /\ goiPc' = [goiPc EXCEPT ![p] = "idle"]
    /\ goiKey' = [goiKey EXCEPT ![p] = Zero]
    /\ goiNv' = [goiNv EXCEPT ![p] = Zero]
    /\ goiRet' = [goiRet EXCEPT ![p] = Zero]
    /\ UNCHANGED <<cfg, outsideInit>>

(***************************************************************************)
(* control: the relay-servers log and relayServer's forwards cache         *)
(***************************************************************************)
relayServerKey(f, hp) == [Forward |-> f, Hostport |-> hp]

\* runRelayServers applies a ChangePut of a relay's ServersResp
RelayServersPut(f, hp, cert) ==
    /\ Len(relayServers) < MaxLog
    /\ relayServers' = Put(relayServers, relayServerKey(f, hp), cert)
    /\ UNCHANGED <<forwardsCache, forwardsOffset, runPc, runOffset, runMsgs, runNext,
                   gf, outsideFwd>>

\* runRelayServers applies a ChangeDel of a relay's ServersResp
RelayServersDel(f, hp) ==
    /\ Len(relayServers) < MaxLog
    /\ relayServers' = Del(relayServers, relayServerKey(f, hp))
    /\ UNCHANGED <<forwardsCache, forwardsOffset, runPc, runOffset, runMsgs, runNext,
                   gf, outsideFwd>>

MapGet(m, k) == IF k \in DOMAIN m THEN m[k] ELSE EmptyMap

\* a reader that has not called getForward
NoResult == [fwd |-> Zero, servers |-> EmptyMap, offset |-> OffsetInvalid]

\* newRelayServer: the cache built from the Snapshot's messages
RECURSIVE CacheOfSnapshot(_, _)
CacheOfSnapshot(cache, msgs) ==
    IF msgs = <<>> THEN cache
    ELSE LET msg == Head(msgs)
             srv == MapGet(cache, msg.Key.Forward)
         IN  CacheOfSnapshot(
                 MapSet(cache, msg.Key.Forward, MapSet(srv, msg.Key.Hostport, msg.Value)),
                 Tail(msgs))

UpdateKeepDeleted(cache, msg) ==
    IF msg.Delete THEN cache
    ELSE MapSet(cache, msg.Key.Forward,
                MapSet(MapGet(cache, msg.Key.Forward), msg.Key.Hostport, msg.Value))

\* run's update closure: the map mutation for one message
Update(cache, msg) ==
    LET srv == MapGet(cache, msg.Key.Forward)
    IN  IF msg.Delete
        THEN LET del == MapDelete(srv, msg.Key.Hostport)
             IN  IF DOMAIN del = {}
                 THEN MapDelete(cache, msg.Key.Forward)
                 ELSE MapSet(cache, msg.Key.Forward, del)
        ELSE MapSet(cache, msg.Key.Forward, MapSet(srv, msg.Key.Hostport, msg.Value))

\* the control server (re)starts: newRelayServer loads the cache from a
\* Snapshot of relay-servers, and Server.Run starts relayServer.run
CtlStart ==
    /\ LET snap == Snapshot(relayServers)
       IN  /\ forwardsCache' = CacheOfSnapshot(EmptyMap, snap.msgs)
           /\ forwardsOffset' = snap.next
    /\ runPc' = "read"
    /\ runOffset' = OffsetInvalid
    /\ runMsgs' = <<>>
    /\ runNext' = OffsetInvalid
    /\ gf' = [r \in Readers |-> NoResult]
    /\ UNCHANGED <<relayServers, outsideFwd>>

\* run: offset := s.forwardsOffset, under the read lock
RunReadOffset ==
    /\ runPc = "read"
    /\ runOffset' = forwardsOffset
    /\ runPc' = "consume"
    /\ UNCHANGED <<relayServers, forwardsCache, forwardsOffset, runMsgs, runNext, gf,
                   outsideFwd>>

\* run: msgs, nextOffset := s.relayServers.Consume(ctx, offset)
RunConsume ==
    /\ runPc = "consume"
    /\ WaitReady(relayServers, runOffset)
    /\ LET r == Consume(relayServers, runOffset)
       IN  /\ runMsgs' = r.msgs
           /\ runNext' = r.next
    /\ runPc' = "update"
    /\ UNCHANGED <<relayServers, forwardsCache, forwardsOffset, runOffset, gf,
                   outsideFwd>>

\* run: update(msg) for the next message of the batch, under the write lock
RunUpdate ==
    /\ runPc = "update"
    /\ runMsgs # <<>>
    /\ forwardsCache' = Update(forwardsCache, Head(runMsgs))
    /\ forwardsOffset' = Head(runMsgs).Offset + 1
    /\ runMsgs' = Tail(runMsgs)
    /\ UNCHANGED <<relayServers, runPc, runOffset, runNext, gf, outsideFwd>>

\* run: s.forwardsOffset = nextOffset, under the write lock
RunSetOffset ==
    /\ runPc = "update"
    /\ runMsgs = <<>>
    /\ forwardsOffset' = runNext
    /\ runPc' = "read"
    /\ UNCHANGED <<relayServers, forwardsCache, runOffset, runMsgs, runNext, gf,
                   outsideFwd>>

\* getForward(fwd), under the read lock
GetForward(r, fwd) ==
    /\ gf' = [gf EXCEPT ![r] = [fwd |-> fwd,
                                servers |-> MapGet(forwardsCache, fwd),
                                offset |-> forwardsOffset]]
    /\ UNCHANGED <<relayServers, forwardsCache, forwardsOffset, runPc, runOffset,
                   runMsgs, runNext, outsideFwd>>

(***************************************************************************)
(* control: the relay-clients log, Client sessions and the clients stream  *)
(***************************************************************************)
\* x509.ParseCertificate
ParseCertificate(raw) ==
    IF raw \in Certs THEN [cert |-> raw, err |-> Nil]
    ELSE [cert |-> Zero, err |-> "ErrParse"]

\* certc.NewKey: the certificate's fingerprint
NewKey(cert) == <<"key", cert>>

relayClientKey(f, role, cert) == [Forward |-> f, Role |-> role, Key |-> NewKey(cert)]

\* a session with no Client call running, no authentication, no response
NoSession == relayClientKey(Zero, Zero, Zero)
NoAuth == {Zero}
NoResp == [Offset |-> OffsetInvalid, Changes |-> <<>>]

\* relayServer.Client is called: s.relayClients.Put(key, val), then listen
ClientStart(s, f, role, cert) ==
    /\ sess[s] = NoSession
    /\ Len(relayClients) < MaxLog
    /\ relayClients' = Put(relayClients, relayClientKey(f, role, cert), cert)
    /\ sess' = [sess EXCEPT ![s] = relayClientKey(f, role, cert)]
    /\ UNCHANGED <<relayAuth, connected, relayOffset, resp, respReq, rcPc, clients,
                   outsideRC>>

\* listen returns: the deferred s.relayClients.Del(key) runs
ClientEnd(s) ==
    /\ sess[s] # NoSession
    /\ Len(relayClients) < MaxLog
    /\ relayClients' = Del(relayClients, sess[s])
    /\ sess' = [sess EXCEPT ![s] = NoSession]
    /\ UNCHANGED <<relayAuth, connected, relayOffset, resp, respReq, rcPc, clients,
                   outsideRC>>

\* the control server's process dies and starts again: no deferred call
\* runs, the logs stay, and no client and no relay is connected
CtlCrash ==
    /\ \E s \in Sessions : sess[s] # NoSession
    /\ sess' = [s \in Sessions |-> NoSession]
    /\ connected' = FALSE
    /\ rcPc' = "idle"
    /\ UNCHANGED <<relayClients, relayAuth, relayOffset, resp, respReq, clients, outsideRC>>

\* relayConn.runErr: the relay authenticates with its token, c.auth = auth
RelayConnect(auth) ==
    /\ ~connected
    /\ relayAuth = NoAuth \/ relayAuth = auth
    /\ relayAuth' = auth
    /\ connected' = TRUE
    /\ UNCHANGED <<relayClients, sess, relayOffset, resp, respReq, rcPc, clients,
                   outsideRC>>

\* the relay's connection ends
RelayDisconnect ==
    /\ connected
    /\ connected' = FALSE
    /\ rcPc' = "idle"
    /\ UNCHANGED <<relayClients, sess, relayAuth, relayOffset, resp, respReq, clients,
                   outsideRC>>

AllowAll(auth, fwd) == TRUE

\* c.auth.Allow(fwd)
Allow(auth, fwd) == fwd \in auth

\* the ClientsResp_Change built for one message
ClientsChange(msg) ==
    [Forward |-> msg.Key.Forward,
     Role |-> msg.Key.Role,
     CertificateKey |-> msg.Key.Key,
     Change |-> IF msg.Delete THEN "ChangeDel" ELSE "ChangePut",
     Certificate |-> IF msg.Delete THEN Zero ELSE msg.Value]

\* the loop over msgs: skip what the relay is not allowed, append the rest
RECURSIVE ClientsChanges(_, _)
ClientsChanges(auth, msgs) ==
    IF msgs = <<>> THEN <<>>
    ELSE IF ~Allow(auth, Head(msgs).Key.Forward)
         THEN ClientsChanges(auth, Tail(msgs))
         ELSE <<ClientsChange(Head(msgs))>> \o ClientsChanges(auth, Tail(msgs))

\* runRelayClients, one round: read the ClientsReq the relay sent with its
\* stored offset, Snapshot or Consume, filter, write the ClientsResp
RunRelayClients ==
    /\ connected
    /\ rcPc = "idle"
    /\ relayOffset # OffsetOldest => WaitReady(relayClients, relayOffset)
    /\ LET r == IF relayOffset = OffsetOldest
                THEN Snapshot(relayClients)
                ELSE Consume(relayClients, relayOffset)
       IN  resp' = [Offset |-> r.next, Changes |-> ClientsChanges(relayAuth, r.msgs)]
    /\ respReq' = relayOffset
    /\ rcPc' = "resp"
    /\ UNCHANGED <<relayClients, sess, relayAuth, connected, relayOffset, clients,
                   outsideRC>>

\* the longest clients log the relay builds
MaxClients == 4

\* relay: clientKey of a change, its Key computed from the parsed certificate
clientKey(f, role, cert) == [Forward |-> f, Role |-> role, Key |-> NewKey(cert)]

\* relay, runClientsStream: the loop over resp.Changes; every change has its
\* certificate parsed first, then Put or Del under the key of that
\* certificate; the first error ends the loop
RECURSIVE ClientsApply(_, _)
ClientsApply(l, changes) ==
    IF changes = <<>> THEN [log |-> l, err |-> Nil]
    ELSE LET change == Head(changes)
             parsed == ParseCertificate(change.Certificate)
             key == clientKey(change.Forward, change.Role, parsed.cert)
         IN  IF parsed.err # Nil THEN [log |-> l, err |-> parsed.err]
             ELSE IF change.Change = "ChangePut"
                  THEN ClientsApply(Put(l, key, change.Certificate), Tail(changes))
             ELSE IF change.Change = "ChangeDel"
                  THEN ClientsApply(Del(l, key), Tail(changes))
             ELSE [log |-> l, err |-> "unknown change"]

\* relay, runClientsStream: read the ClientsResp, apply its changes, store
\* its offset; on an error the stream function returns, the connection is
\* closed and the relay connects again
RelayApplyClients ==
    /\ connected
    /\ rcPc = "resp"
    /\ Len(clients) + Len(resp.Changes) <= MaxClients
    /\ LET r == ClientsApply(clients, resp.Changes)
       IN  /\ clients' = r.log
           /\ IF r.err = Nil
              THEN relayOffset' = resp.Offset /\ UNCHANGED connected
              ELSE connected' = FALSE /\ UNCHANGED relayOffset
    /\ rcPc' = "idle"
    /\ UNCHANGED <<relayClients, sess, relayAuth, resp, respReq, outsideRC>>

(***************************************************************************)
(* The servers stream: the relay serves its servers log, the control       *)
(* server's runRelayServers applies it to relay-servers                    *)
(***************************************************************************)
\* the relay at the other end of the stream, c.hostport
RelayHP == "h1"

\* the (forward, server certificate) pairs this relay publishes
ServersPublished == {<<p[1], p[3]>> : p \in {q \in Published : q[2] = RelayHP}}

\* crashes, reconnects and failed batches in one behaviour
MaxFaults == 1
\* the longest servers log the relay builds
MaxServers == 2

NoServersResp == [Offset |-> OffsetInvalid, Changes |-> <<>>]

\* relay, runClientsLog: s.servers.Put(srvKey, sv)
ServersPut(f, cert) ==
    /\ Len(servers) < MaxServers
    /\ servers' = Put(servers, f, cert)
    /\ UNCHANGED <<relayServers, relayServerOffsets, rsPc, rsReq, rsSnapMax, rsResp,
                   rsIdx, rsAcked, rsSince, rsFaults, outsideRS>>

\* relay, runClientsLog: s.servers.Del(srvKey)
ServersDel(f) ==
    /\ Len(servers) < MaxServers
    /\ servers' = Del(servers, f)
    /\ UNCHANGED <<relayServers, relayServerOffsets, rsPc, rsReq, rsSnapMax, rsResp,
                   rsIdx, rsAcked, rsSince, rsFaults, outsideRS>>

GetRelayServerOffsetOldest(l, hp) == OffsetOldest

\* getRelayServerOffset: the stored offset, OffsetOldest when there is none
GetRelayServerOffset(l, hp) ==
    LET r == Get(l, hp)
    IN  IF r.err = ErrNotFound THEN OffsetOldest ELSE r.v

\* runRelayServers: read the stored offset and write the ServersReq
RsReadOffset ==
    /\ rsPc = "read"
    /\ rsReq' = GetRelayServerOffset(relayServerOffsets, RelayHP)
    /\ rsPc' = "sent"
    /\ UNCHANGED <<servers, relayServers, relayServerOffsets, rsSnapMax, rsResp, rsIdx,
                   rsAcked, rsSince, rsFaults, outsideRS>>

\* relay, runServersStream: the ServersResp_Change built for one message
ServersChange(msg) ==
    [Server |-> msg.Key,
     Change |-> IF msg.Delete THEN "ChangeDel" ELSE "ChangePut",
     ServerCertificate |-> IF msg.Delete THEN Zero ELSE msg.Value]

ServersChanges(msgs) == [i \in DOMAIN msgs |-> ServersChange(msgs[i])]

\* what a faulty peer does to a response: nothing, or its last change gets
\* a certificate that does not parse, or a change type that does not exist
Faults == {"none", "cert", "type"}

Damage(changes, fault) ==
    IF fault = "none" \/ changes = <<>> THEN changes
    ELSE [changes EXCEPT ![Len(changes)] =
            IF fault = "cert"
            THEN [@ EXCEPT !.Change = "ChangePut", !.ServerCertificate = "garbage"]
            ELSE [@ EXCEPT !.Change = "ChangeUnknown"]]

\* relay, runServersStream with req.Offset = OffsetOldest: Snapshot starts
\* and reads maxOffset
RsSnapStart ==
    /\ rsPc = "sent"
    /\ rsReq = OffsetOldest
    /\ rsSnapMax' = NextOffset(servers)
    /\ rsPc' = "snap"
    /\ UNCHANGED <<servers, relayServers, relayServerOffsets, rsReq, rsResp, rsIdx,
                   rsAcked, rsSince, rsFaults, outsideRS>>

\* relay, runServersStream: Snapshot's loop runs and the ServersResp is written
RsSnapReply(fault) ==
    /\ rsPc = "snap"
    /\ fault # "none" => rsFaults < MaxFaults /\ rsSnapMax > 0
    /\ LET sum == SnapLoop(servers, OffsetOldest, rsSnapMax, EmptyMap)
           msgs == SortedByOffset(MapValues(sum))
       IN  rsResp' = [Offset |-> rsSnapMax,
                      Changes |-> Damage(ServersChanges(msgs), fault)]
    /\ rsIdx' = 0
    /\ rsPc' = "apply"
    /\ rsSnapMax' = OffsetInvalid
    /\ UNCHANGED <<servers, relayServers, relayServerOffsets, rsReq, rsAcked, rsSince,
                   rsFaults, outsideRS>>

\* relay, runServersStream with a numbered offset: Consume blocks until the
\* log has a record at it, and the ServersResp is written
RsConsumeReply(fault) ==
    /\ rsPc = "sent"
    /\ rsReq # OffsetOldest
    /\ WaitReady(servers, rsReq)
    /\ fault # "none" => rsFaults < MaxFaults
    /\ LET r == Consume(servers, rsReq)
       IN  rsResp' = [Offset |-> r.next,
                      Changes |-> Damage(ServersChanges(r.msgs), fault)]
    /\ rsIdx' = 0
    /\ rsPc' = "apply"
    /\ UNCHANGED <<servers, relayServers, relayServerOffsets, rsReq, rsSnapMax, rsAcked,
                   rsSince, rsFaults, outsideRS>>

\* the switch on change.Change finds a case and the certificate parses
ChangeApplies(change) ==
    \/ change.Change = "ChangePut" /\ ParseCertificate(change.ServerCertificate).err = Nil
    \/ change.Change = "ChangeDel"

BatchAppliedAlways(r, idx) == TRUE

\* "for _, change := range resp.Changes" has run to its end
BatchApplied(r, idx) == idx = Len(r.Changes)

\* runRelayServers: the next change of the batch goes to relay-servers
RsApply ==
    /\ rsPc = "apply"
    /\ rsIdx < Len(rsResp.Changes)
    /\ LET change == rsResp.Changes[rsIdx + 1]
           key == relayServerKey(change.Server, RelayHP)
       IN  /\ ChangeApplies(change)
           /\ relayServers' =
                IF change.Change = "ChangePut"
                THEN Put(relayServers, key, ParseCertificate(change.ServerCertificate).cert)
                ELSE Del(relayServers, key)
    /\ rsIdx' = rsIdx + 1
    /\ rsSince' = rsSince + 1
    /\ UNCHANGED <<servers, relayServerOffsets, rsPc, rsReq, rsSnapMax, rsResp, rsAcked,
                   rsFaults, outsideRS>>

\* runRelayServers: the next change has an unparsable certificate or an
\* unknown type: return the error; the connection closes and the relay
\* connects again
RsApplyErr ==
    /\ rsPc = "apply"
    /\ rsIdx < Len(rsResp.Changes)
    /\ ~ChangeApplies(rsResp.Changes[rsIdx + 1])
    /\ rsPc' = "read"
    /\ rsReq' = OffsetInvalid
    /\ rsResp' = NoServersResp
    /\ rsIdx' = 0
    /\ rsFaults' = rsFaults + 1
    /\ UNCHANGED <<servers, relayServers, relayServerOffsets, rsSnapMax, rsAcked, rsSince,
                   outsideRS>>

\* runRelayServers: setRelayServerOffset(c.hostport, resp.Offset)
RsSetOffset ==
    /\ rsPc = "apply"
    /\ BatchApplied(rsResp, rsIdx)
    /\ relayServerOffsets' = Put(relayServerOffsets, RelayHP, rsResp.Offset)
    /\ rsAcked' = rsResp.Offset
    /\ rsSince' = 0
    /\ rsPc' = "read"
    /\ rsReq' = OffsetInvalid
    /\ rsResp' = NoServersResp
    /\ rsIdx' = 0
    /\ UNCHANGED <<servers, relayServers, rsSnapMax, rsFaults, outsideRS>>

\* runRelayServers returns an error of the stream or of a log (the relay
\* went away, a write failed): the relay connects again and a new
\* runRelayServers starts
RsReconnect ==
    /\ rsPc \in {"sent", "apply"}
    /\ rsFaults < MaxFaults
    /\ rsPc' = "read"
    /\ rsReq' = OffsetInvalid
    /\ rsSnapMax' = OffsetInvalid
    /\ rsResp' = NoServersResp
    /\ rsIdx' = 0
    /\ rsFaults' = rsFaults + 1
    /\ UNCHANGED <<servers, relayServers, relayServerOffsets, rsAcked, rsSince, outsideRS>>

\* the control server's process dies and starts again: the logs stay, what
\* runRelayServers held in memory is gone; the relay connects again
RsCrash ==
    /\ rsPc \in {"snap", "apply"}
    /\ rsFaults < MaxFaults
    /\ rsPc' = "read"
    /\ rsReq' = OffsetInvalid
    /\ rsSnapMax' = OffsetInvalid
    /\ rsResp' = NoServersResp
    /\ rsIdx' = 0
    /\ rsFaults' = rsFaults + 1
    /\ UNCHANGED <<servers, relayServers, relayServerOffsets, rsAcked, rsSince, outsideRS>>

(***************************************************************************)
(* Authentication of a connection: relayConn for a relay, ServerClient     *)
(* for a client                                                            *)
(***************************************************************************)
\* one connection of a relay (relayConn) and one of a client (ServerClient)
Conns == {"relay", "client"}
Tokens == {"t1", "t2", "bad1", "bad2"}
\* the tokens the server's Authenticator knows
ValidTokens == {"t1", "t2"}
\* what the stream does during authentication: works, fails the read of
\* the request, fails the write of the response
StreamIO == {"ok", "readerr", "writeerr"}
\* the streams a client opens after authentication
MaxStreams == 2
\* the streams of a relay connection: runRelayClients and runRelayServers
RelayStreams == 2

Error_AuthenticationFailed == 100
\* ServerClient.Run: CloseWithError(1, "no auth"), CloseWithError(2, "disconnect")
CloseNoAuth == 1
CloseDisconnect == 2
\* relayConn.run: CloseWithError(0, "done")
CloseDone == 0

\* c.server.auth.Authenticate(req.Token)
Authenticate(token) ==
    IF token \in ValidTokens THEN [auth |-> token, err |-> Nil]
    ELSE [auth |-> Zero, err |-> "ErrUnknownToken"]

\* authenticate of either connection type: the error it returns, Nil when
\* the token is accepted and the response written; a rejected token gives
\* the pb.Error with code AuthenticationFailed unless writing it fails
AuthenticateErr(token, io) ==
    IF io = "readerr" THEN [kind |-> "io", code |-> 0]
    ELSE IF Authenticate(token).err # Nil
         THEN IF io = "writeerr" THEN [kind |-> "io", code |-> 0]
              ELSE [kind |-> "pb", code |-> Error_AuthenticationFailed]
         ELSE IF io = "writeerr" THEN [kind |-> "io", code |-> 0]
              ELSE [kind |-> "nil", code |-> 0]

\* relayConn.runErr: the code the connection is closed with when
\* authenticate returned err
RelayCloseCode(err) ==
    IF err.kind = "pb" THEN err.code ELSE Error_AuthenticationFailed

\* ServerClient.Run: the code the connection is closed with when
\* authenticate returned err
ClientCloseCode(err) == CloseNoAuth

\* the first stream of connection c arrives with a token
ConnAuthenticate(c, token, io) ==
    /\ aPc[c] = "new"
    /\ aToken' = [aToken EXCEPT ![c] = IF io = "readerr" THEN Zero ELSE token]
    /\ aRejected' = [aRejected EXCEPT
            ![c] = io # "readerr" /\ Authenticate(token).err # Nil]
    /\ LET err == AuthenticateErr(token, io)
       IN  IF err.kind = "nil"
           THEN /\ aPc' = [aPc EXCEPT ![c] = "serving"]
                /\ UNCHANGED aClose
           ELSE /\ aPc' = [aPc EXCEPT ![c] = "closed"]
                /\ aClose' = [aClose EXCEPT
                        ![c] = IF c = "relay" THEN <<RelayCloseCode(err)>>
                               ELSE <<ClientCloseCode(err)>>]
    /\ UNCHANGED <<aServed, outsideAuth>>

\* a further stream of an authenticated connection is served: the clients
\* or servers stream of a relay, a register or connect request of a client
ConnServeStream(c) ==
    /\ aPc[c] = "serving"
    /\ aServed[c] < (IF c = "relay" THEN RelayStreams ELSE MaxStreams)
    /\ aServed' = [aServed EXCEPT ![c] = @ + 1]
    /\ UNCHANGED <<aPc, aToken, aRejected, aClose, outsideAuth>>

\* an authenticated connection ends: relayConn.run's deferred close,
\* ServerClient.Run's AcceptStream error
ConnEnd(c) ==
    /\ aPc[c] = "serving"
    /\ aPc' = [aPc EXCEPT ![c] = "closed"]
    /\ aClose' = [aClose EXCEPT
            ![c] = IF c = "relay" THEN <<CloseDone>> ELSE <<CloseDisconnect>>]
    /\ UNCHANGED <<aToken, aRejected, aServed, outsideAuth>>

\* the peer dials again: a new relayConn or ServerClient
ConnNew(c) ==
    /\ aPc[c] = "closed"
    /\ aPc' = [aPc EXCEPT ![c] = "new"]
    /\ aToken' = [aToken EXCEPT ![c] = Zero]
    /\ aRejected' = [aRejected EXCEPT ![c] = FALSE]
    /\ aClose' = [aClose EXCEPT ![c] = <<>>]
    /\ aServed' = [aServed EXCEPT ![c] = 0]
    /\ UNCHANGED outsideAuth

(***************************************************************************)
(* The clients stream when relay-clients has lost records: the "too far    *)
(* off" case runRelayClients notes                                         *)
(***************************************************************************)
\* a ClientsResp: the Restart field of the message is never set by
\* runRelayClients, so it has its zero value
NoClientsResp == [Offset |-> OffsetInvalid, Changes |-> <<>>, Restart |-> FALSE]

\* relayServer.Client: s.relayClients.Put(key, val)
GapPut(f, role, cert) ==
    /\ Len(gapLog) < MaxLog
    /\ gapLog' = Put(gapLog, relayClientKey(f, role, cert), cert)
    /\ UNCHANGED <<gapBase, gapOffset, gapPc, gapReq, gapMsgs, gapResp, outsideGap>>

\* relayServer.Client: the deferred s.relayClients.Del(key)
GapDel(f, role, cert) ==
    /\ Len(gapLog) < MaxLog
    /\ gapLog' = Del(gapLog, relayClientKey(f, role, cert))
    /\ UNCHANGED <<gapBase, gapOffset, gapPc, gapReq, gapMsgs, gapResp, outsideGap>>

\* records leave the head of the log (klevdb retention or deletion on the
\* log's directory): the log's next offset stays
GapTrim(n) ==
    /\ gapBase < n
    /\ n <= Len(gapLog)
    /\ gapBase' = n
    /\ UNCHANGED <<gapLog, gapOffset, gapPc, gapReq, gapMsgs, gapResp, outsideGap>>

\* klevdb Consume on a log whose head is gone: an offset before the first
\* record left is served from that record
TrimmedStart(base, offset) ==
    IF offset = OffsetOldest \/ offset < base THEN base ELSE offset

\* relayClients.Snapshot() on such a log
TrimmedSnapshot(l, base) ==
    LET maxOffset == NextOffset(l)
    IN  [msgs |-> SortedByOffset(MapValues(SnapLoop(l, base, maxOffset, EmptyMap))),
         next |-> maxOffset]

\* relayClients.Consume(ctx, offset) on such a log
TrimmedConsume(l, base, offset) == Consume(l, TrimmedStart(base, offset))

\* runRelayClients, one round, up to the written ClientsResp; the relay is
\* allowed every forward
GapServe ==
    /\ gapPc = "idle"
    /\ gapOffset # OffsetOldest => WaitReady(gapLog, gapOffset)
    /\ LET r == IF gapOffset = OffsetOldest
                THEN TrimmedSnapshot(gapLog, gapBase)
                ELSE TrimmedConsume(gapLog, gapBase, gapOffset)
       IN  /\ gapMsgs' = r.msgs
           /\ gapResp' = [Offset |-> r.next,
                          Changes |-> ClientsChanges(Forwards, r.msgs),
                          Restart |-> FALSE]
    /\ gapReq' = gapOffset
    /\ gapPc' = "resp"
    /\ UNCHANGED <<gapLog, gapBase, gapOffset, outsideGap>>

\* relay, runClientsStream: setClientOffset(resp.Offset); the changes'
\* application is RelayApplyClients
GapStore ==
    /\ gapPc = "resp"
    /\ gapOffset' = gapResp.Offset
    /\ gapPc' = "idle"
    /\ UNCHANGED <<gapLog, gapBase, gapReq, gapMsgs, gapResp, outsideGap>>

(***************************************************************************)
(* The control server's id: newRelayServer at every start, authenticate    *)
(* towards the relays                                                      *)
(***************************************************************************)
\* the process that starts the control server
Starter == "p1"
\* the restarts of the control server in one behaviour
MaxStops == 3
\* what model.GenServerName("connet") can return
ServerNames == {"connet-1", "connet-2", "connet-3"}

\* newRelayServer returns: id: serverIDConfig.String
IdUp ==
    /\ goiPc[Starter] = "done"
    /\ srvId = Zero
    /\ srvId' = goiRet[Starter]
    /\ UNCHANGED <<idReported, relayStateId, idStops, initVars, outsideId>>

\* relay hp authenticates: AuthenticateResp{ControlId: c.server.id}; the
\* relay's setServerID keeps or replaces its state by that id
IdAuthenticate(hp) ==
    /\ srvId # Zero
    /\ idReported' = idReported \cup {srvId}
    /\ relayStateId' = [relayStateId EXCEPT ![hp] = srvId]
    /\ UNCHANGED <<srvId, idStops, initVars, outsideId>>

\* the control server's process ends, at any point of its start or later;
\* the config log stays
IdCrash ==
    /\ goiPc[Starter] # "idle"
    /\ idStops < MaxStops
    /\ idStops' = idStops + 1
    /\ srvId' = Zero
    /\ goiPc' = [goiPc EXCEPT ![Starter] = "idle"]
    /\ goiKey' = [goiKey EXCEPT ![Starter] = Zero]
    /\ goiNv' = [goiNv EXCEPT ![Starter] = Zero]
    /\ goiRet' = [goiRet EXCEPT ![Starter] = Zero]
    /\ UNCHANGED <<cfg, idReported, relayStateId, outsideId>>

(***************************************************************************)
(* relay: relayServer built and updated from servers records, its          *)
(* ClientCAs pool read by TLS handshakes                                   *)
(***************************************************************************)
ServerNameSet == {"n1", "n2"}
\* serverClientKey: (role, key of the certificate)
ServerClientKeys == {<<"Destination", "cert1">>, <<"Source", "cert2">>}
\* runClientsLog Puts a record only with at least one client, else it Dels
ClientSets == (SUBSET ServerClientKeys) \ {{}}

NoRecord == [Name |-> Zero, Clients |-> {}]
NoPool == {Zero}
\* a Go map that was never made: reads find nothing, a write panics
NilMap == [nil |-> TRUE, m |-> EmptyMap]

\* the certificates of a record's clients
CertsOf(cs) == {k[2] : k \in cs}

\* relay, runClientsLog: s.servers.Put(srvKey, sv)
PoolRecord(name, cs) ==
    /\ Len(srvLog) < MaxLog
    /\ srvLog' = Put(srvLog, name, [Name |-> name, Clients |-> cs])
    /\ UNCHANGED <<serverByName, poolOffset, poolPanic, poolLast, hsPool, outsidePool>>

\* newRelayServer(msg): the struct literal leaves clients nil; the loop
\* over msg.Value.Clients adds the certificate to the pool and then
\* assigns srv.clients[k], which panics on the nil map; with no client
\* the loop does not run and the empty pool is stored
newRelayServer(msg) ==
    IF msg.Value.Clients # {}
    THEN [panic |-> TRUE, srv |-> [cas |-> NoPool, clients |-> NilMap]]
    ELSE [panic |-> FALSE, srv |-> [cas |-> {}, clients |-> NilMap]]

\* relayServer.update(msg): a client already in s.clients goes to the new
\* pool; a new one is parsed, added and assigned to s.clients[k], which
\* panics when the map is nil; then the pool is stored and the clients not
\* seen are deleted
update(srv, msg) ==
    LET new == {k \in msg.Value.Clients : k \notin DOMAIN srv.clients.m}
    IN  IF new # {} /\ srv.clients.nil
        THEN [panic |-> TRUE, srv |-> srv]
        ELSE [panic |-> FALSE,
              srv |-> [cas |-> CertsOf(msg.Value.Clients),
                       clients |-> [srv.clients EXCEPT
                            !.m = [k \in msg.Value.Clients |->
                                     IF k \in DOMAIN srv.clients.m
                                     THEN srv.clients.m[k] ELSE k[2]]]]]

\* runServersLog: upsert of the next message of the servers log
PoolUpsert ==
    /\ ~poolPanic
    /\ poolOffset < Len(srvLog)
    /\ LET msg == ToMessage(srvLog[poolOffset + 1])
           r == IF msg.Value.Name \in DOMAIN serverByName
                THEN update(serverByName[msg.Value.Name], msg)
                ELSE newRelayServer(msg)
       IN  /\ poolLast' = msg.Value
           /\ poolPanic' = r.panic
           /\ IF r.panic
              THEN UNCHANGED <<serverByName, poolOffset>>
              ELSE /\ serverByName' = MapSet(serverByName, msg.Value.Name, r.srv)
                   /\ poolOffset' = poolOffset + 1
    /\ UNCHANGED <<srvLog, hsPool, outsidePool>>

\* clientTLSConfig: cfg.ClientCAs = srv.cas.Load() when the name is known,
\* the base configuration otherwise
PoolHandshake(name) ==
    /\ ~poolPanic
    /\ hsPool' = IF name \in DOMAIN serverByName THEN serverByName[name].cas ELSE NoPool
    /\ UNCHANGED <<srvLog, serverByName, poolOffset, poolPanic, poolLast, outsidePool>>

\* the relay's process starts again: newControlServerState builds a
\* relayServer from every message of the servers Snapshot
RECURSIVE LoadServers(_, _)
LoadServers(byName, msgs) ==
    IF msgs = <<>> THEN [panic |-> FALSE, byName |-> byName]
    ELSE LET r == newRelayServer(Head(msgs))
         IN  IF r.panic THEN [panic |-> TRUE, byName |-> byName]
             ELSE LoadServers(MapSet(byName, Head(msgs).Value.Name, r.srv), Tail(msgs))

PoolRestart ==
    /\ poolPanic
    /\ LET r == LoadServers(EmptyMap, Snapshot(srvLog).msgs)
       IN  /\ poolPanic' = r.panic
           /\ serverByName' = r.byName
    /\ poolOffset' = 0
    /\ poolLast' = NoRecord
    /\ hsPool' = NoPool
    /\ UNCHANGED <<srvLog, outsidePool>>

(***************************************************************************)
(* client: DirectServer, the expectations of one vServer and runConn       *)
(***************************************************************************)
\* the connections peers make to the vServer
DirectConns == {"q1", "q2", "q3"}
\* the channels expectConn makes in one behaviour
MaxChans == 3

\* conn.CloseWithError(2, "client not found")
CloseClientNotFound == 2

\* a connection not yet accepted
NoConn == [pc |-> "new", key |-> NewKey(Zero), exp |-> 0, found |-> FALSE, code |-> <<>>]

dequeueKeep(cl, key) ==
    IF key \in DOMAIN cl THEN [exp |-> cl[key], found |-> TRUE, clients |-> cl]
    ELSE [exp |-> 0, found |-> FALSE, clients |-> cl]

\* vServer.dequeue: the expectation of key, taken out of s.clients
dequeue(cl, key) ==
    IF key \in DOMAIN cl
    THEN [exp |-> cl[key], found |-> TRUE, clients |-> MapDelete(cl, key)]
    ELSE [exp |-> 0, found |-> FALSE, clients |-> cl]

\* vServer.updateClientCA: the pool of the expected certificates
updateClientCA(cl) == DOMAIN cl

\* expectConn(serverCert, cert): an expectation of the same key is
\* cancelled by closing its channel; a new channel takes its place
ExpectConn(cert) ==
    /\ Len(chans) < MaxChans
    /\ LET key == NewKey(cert)
           ch == Len(chans) + 1
           cancelled == IF key \in DOMAIN vClients
                        THEN [chans EXCEPT ![vClients[key]].closed = TRUE]
                        ELSE chans
       IN  /\ chans' = Append(cancelled, [key |-> key, closed |-> FALSE, got |-> <<>>])
           /\ vClients' = MapSet(vClients, key, ch)
           /\ clientCA' = updateClientCA(vClients')
    /\ UNCHANGED <<dconn, outsideDirect>>

\* the listener accepts a connection: the handshake verified the peer's
\* certificate against the pool, and runConn starts
DirectAccept(q, cert) ==
    /\ dconn[q].pc = "new"
    /\ NewKey(cert) \in clientCA
    /\ dconn' = [dconn EXCEPT ![q] = [NoConn EXCEPT !.pc = "accepted", !.key = NewKey(cert)]]
    /\ UNCHANGED <<vClients, clientCA, chans, outsideDirect>>

\* runConn: exp := srv.dequeue(key); without one the connection is closed
RunConnDequeue(q) ==
    /\ dconn[q].pc = "accepted"
    /\ LET r == dequeue(vClients, dconn[q].key)
       IN  /\ vClients' = r.clients
           /\ dconn' = [dconn EXCEPT
                ![q] = IF r.found
                       THEN [@ EXCEPT !.pc = "send", !.exp = r.exp, !.found = TRUE]
                       ELSE [@ EXCEPT !.pc = "closed", !.code = <<CloseClientNotFound>>]]
    /\ UNCHANGED <<clientCA, chans, outsideDirect>>

\* runConn: exp.ch <- conn, received by the waiter; close(exp.ch);
\* srv.updateClientCA()
RunConnSend(q) ==
    /\ dconn[q].pc = "send"
    /\ chans' = [chans EXCEPT ![dconn[q].exp] =
                    [@ EXCEPT !.got = Append(@, q), !.closed = TRUE]]
    /\ clientCA' = updateClientCA(vClients)
    /\ dconn' = [dconn EXCEPT ![q].pc = "done"]
    /\ UNCHANGED <<vClients, outsideDirect>>

(***************************************************************************)
(* The mutexes of the caches: relayServer.forwardsMu around run and        *)
(* getForward, vServer.mu around expectConn, dequeue and updateClientCA    *)
(***************************************************************************)
\* records a relay may publish ahead of run's offset
MaxPending == 2

NoTask == "none"
\* relayServer.run, a caller of getForward, a caller of expectConn, and
\* the runConn goroutines of two connections
LockConns == {"q1", "q2"}
LockTasks == {"run", "rd1", "expect"} \cup LockConns

\* a sync.RWMutex: its writer and its readers
FreeMutex == [w |-> NoTask, r |-> {}]
CanLock(mu) == mu.w = NoTask /\ mu.r = {}
CanRLock(mu) == mu.w = NoTask
Lock(mu, t) == [mu EXCEPT !.w = t]
Unlock(mu, t) == [mu EXCEPT !.w = NoTask]
RLock(mu, t) == [mu EXCEPT !.r = @ \cup {t}]
RUnlockKept(mu, t) == mu
RUnlock(mu, t) == [mu EXCEPT !.r = @ \ {t}]
Holds(mu, t) == mu.w = t \/ t \in mu.r

\* a relay's runRelayServers appends to relay-servers
LkPublish ==
    /\ lkAvail < MaxPending
    /\ lkAvail' = lkAvail + 1
    /\ UNCHANGED <<forwardsMu, vMu, lkPc, lkBatch, lkExp, lkWaiter, outsideLock>>

\* run: s.forwardsMu.RLock(); offset := s.forwardsOffset
LkRunRLock ==
    /\ lkPc["run"] = "idle"
    /\ CanRLock(forwardsMu)
    /\ forwardsMu' = RLock(forwardsMu, "run")
    /\ lkPc' = [lkPc EXCEPT !["run"] = "read"]
    /\ UNCHANGED <<vMu, lkAvail, lkBatch, lkExp, lkWaiter, outsideLock>>

\* run: s.forwardsMu.RUnlock(), and the call of Consume
LkRunRUnlock ==
    /\ lkPc["run"] = "read"
    /\ forwardsMu' = RUnlock(forwardsMu, "run")
    /\ lkPc' = [lkPc EXCEPT !["run"] = "consume"]
    /\ UNCHANGED <<vMu, lkAvail, lkBatch, lkExp, lkWaiter, outsideLock>>

\* run: Consume returns once the log has a record at the offset
LkRunConsume ==
    /\ lkPc["run"] = "consume"
    /\ lkAvail > 0
    /\ lkBatch' = Min(lkAvail, MaxCount)
    /\ lkAvail' = lkAvail - lkBatch'
    /\ lkPc' = [lkPc EXCEPT !["run"] = "update"]
    /\ UNCHANGED <<forwardsMu, vMu, lkExp, lkWaiter, outsideLock>>

\* update: s.forwardsMu.Lock()
LkUpdateLock ==
    /\ lkPc["run"] = "update"
    /\ CanLock(forwardsMu)
    /\ forwardsMu' = Lock(forwardsMu, "run")
    /\ lkPc' = [lkPc EXCEPT !["run"] = "updating"]
    /\ UNCHANGED <<vMu, lkAvail, lkBatch, lkExp, lkWaiter, outsideLock>>

\* update: the cache is changed, and the deferred Unlock
LkUpdateUnlock ==
    /\ lkPc["run"] = "updating"
    /\ forwardsMu' = Unlock(forwardsMu, "run")
    /\ lkBatch' = lkBatch - 1
    /\ lkPc' = [lkPc EXCEPT !["run"] = IF lkBatch' = 0 THEN "setoff" ELSE "update"]
    /\ UNCHANGED <<vMu, lkAvail, lkExp, lkWaiter, outsideLock>>

\* run: s.forwardsMu.Lock(); s.forwardsOffset = nextOffset
LkSetOffsetLock ==
    /\ lkPc["run"] = "setoff"
    /\ CanLock(forwardsMu)
    /\ forwardsMu' = Lock(forwardsMu, "run")
    /\ lkPc' = [lkPc EXCEPT !["run"] = "setting"]
    /\ UNCHANGED <<vMu, lkAvail, lkBatch, lkExp, lkWaiter, outsideLock>>

\* run: s.forwardsMu.Unlock(), and the loop starts again
LkSetOffsetUnlock ==
    /\ lkPc["run"] = "setting"
    /\ forwardsMu' = Unlock(forwardsMu, "run")
    /\ lkPc' = [lkPc EXCEPT !["run"] = "idle"]
    /\ UNCHANGED <<vMu, lkAvail, lkBatch, lkExp, lkWaiter, outsideLock>>

\* getForward: s.forwardsMu.RLock()
LkGetForwardRLock ==
    /\ lkPc["rd1"] = "idle"
    /\ CanRLock(forwardsMu)
    /\ forwardsMu' = RLock(forwardsMu, "rd1")
    /\ lkPc' = [lkPc EXCEPT !["rd1"] = "read"]
    /\ UNCHANGED <<vMu, lkAvail, lkBatch, lkExp, lkWaiter, outsideLock>>

\* getForward: the clone is returned, and the deferred RUnlock
LkGetForwardRUnlock ==
    /\ lkPc["rd1"] = "read"
    /\ forwardsMu' = RUnlock(forwardsMu, "rd1")
    /\ lkPc' = [lkPc EXCEPT !["rd1"] = "idle"]
    /\ UNCHANGED <<vMu, lkAvail, lkBatch, lkExp, lkWaiter, outsideLock>>

\* expectConn: srv.mu.Lock()
LkExpectLock ==
    /\ lkPc["expect"] = "idle"
    /\ CanLock(vMu)
    /\ vMu' = Lock(vMu, "expect")
    /\ lkPc' = [lkPc EXCEPT !["expect"] = "locked"]
    /\ UNCHANGED <<forwardsMu, lkAvail, lkBatch, lkExp, lkWaiter, outsideLock>>

\* expectConn: the expectation is stored, and the deferred Unlock; the
\* caller then receives from the channel
LkExpectUnlock ==
    /\ lkPc["expect"] = "locked"
    /\ vMu' = Unlock(vMu, "expect")
    /\ lkExp' = TRUE
    /\ lkPc' = [lkPc EXCEPT !["expect"] = "ca"]
    /\ UNCHANGED <<forwardsMu, lkAvail, lkBatch, lkWaiter, outsideLock>>

\* updateClientCA: s.mu.RLock()
LkClientCARLock(t) ==
    /\ lkPc[t] = "ca"
    /\ CanRLock(vMu)
    /\ vMu' = RLock(vMu, t)
    /\ lkPc' = [lkPc EXCEPT ![t] = "castore"]
    /\ UNCHANGED <<forwardsMu, lkAvail, lkBatch, lkExp, lkWaiter, outsideLock>>

\* updateClientCA: the pool is stored, and the deferred RUnlock
LkClientCARUnlock(t) ==
    /\ lkPc[t] = "castore"
    /\ vMu' = RUnlock(vMu, t)
    /\ lkPc' = [lkPc EXCEPT ![t] = "idle"]
    /\ UNCHANGED <<forwardsMu, lkAvail, lkBatch, lkExp, lkWaiter, outsideLock>>

\* the caller of expectConn receives from the channel, or stops doing so
LkWaiter ==
    /\ lkWaiter' = ~lkWaiter
    /\ UNCHANGED <<forwardsMu, vMu, lkPc, lkAvail, lkBatch, lkExp, outsideLock>>

\* runConn -> dequeue: s.mu.Lock()
LkDequeueLock(q) ==
    /\ lkPc[q] = "idle"
    /\ CanLock(vMu)
    /\ vMu' = Lock(vMu, q)
    /\ lkPc' = [lkPc EXCEPT ![q] = "locked"]
    /\ UNCHANGED <<forwardsMu, lkAvail, lkBatch, lkExp, lkWaiter, outsideLock>>

\* dequeue: the expectation is deleted, and the deferred Unlock; runConn
\* closes the connection without one, or goes on to exp.ch <- conn
LkDequeueUnlock(q) ==
    /\ lkPc[q] = "locked"
    /\ vMu' = Unlock(vMu, q)
    /\ lkExp' = FALSE
    /\ lkPc' = [lkPc EXCEPT ![q] = IF lkExp THEN "send" ELSE "idle"]
    /\ UNCHANGED <<forwardsMu, lkAvail, lkBatch, lkWaiter, outsideLock>>

\* runConn: exp.ch <- conn returns once the waiter receives; close(exp.ch)
LkSend(q) ==
    /\ lkPc[q] = "send"
    /\ lkWaiter
    /\ lkPc' = [lkPc EXCEPT ![q] = "ca"]
    /\ UNCHANGED <<forwardsMu, vMu, lkAvail, lkBatch, lkExp, lkWaiter, outsideLock>>

(***************************************************************************)
(* Client.run and controlClient.run: connect, session, reconnect           *)
(***************************************************************************)
Runners == {"client", "relay"}
\* the dials one run makes
MaxDials == 4
\* netc.MinBackoff and the cap of netc.NextBackoff, in units of MinBackoff
MinBackoff == 1
MaxBackoff == 4
\* netc.NextBackoff: doubling up to the cap
NextBackoff(d) == Min(2 * d, MaxBackoff)

\* what a connect can end with; the relay's connect answers a rejection
\* with retConnect(err) of the nil err of pb.Read
ConnectOutcomes(r) == IF r = "relay" THEN {"ok", "fail", "rejected"} ELSE {"ok", "fail"}

TokenAfterAssigned(retoken, out, new) == IF out = "ok" THEN new ELSE 0
\* reconnect: "sess, retoken, err := c.connect(...)" declares its own
\* retoken; the caller's changes only with the return of a success
TokenAfter(retoken, out, new) == IF out = "ok" THEN new ELSE retoken

SelectCasesTimerOnly(done, fired) == IF fired THEN {"timer"} ELSE {}
\* reconnect's select: the cases that can be taken
SelectCases(done, fired) ==
    (IF done THEN {"done"} ELSE {}) \cup (IF fired THEN {"timer"} ELSE {})

\* where a select goes with the case it takes
AfterSelect(pc, cases, case) ==
    IF cases = {} THEN pc ELSE IF case = "done" THEN "returned" ELSE "connect"

\* connect, called by run (first) or by reconnect: dial and authenticate
ClConnect(r, out) ==
    /\ clPc[r] \in {"connect0", "connect"}
    /\ clDials[r] < MaxDials
    /\ out \in ConnectOutcomes(r)
    /\ clDone[r] => out = "fail"
    /\ clDials' = [clDials EXCEPT ![r] = @ + 1]
    /\ clSent' = [clSent EXCEPT ![r] = <<clRetoken[r], clGranted[r]>>]
    /\ LET new == IF r = "client" THEN clDials'[r] ELSE 0
       IN  /\ clGranted' = [clGranted EXCEPT ![r] = IF out = "ok" THEN new ELSE @]
           /\ clRetoken' = [clRetoken EXCEPT ![r] = TokenAfter(@, out, new)]
    /\ \/ /\ out = "ok"
          /\ clPc' = [clPc EXCEPT ![r] = "session"]
          /\ clDelay' = [clDelay EXCEPT ![r] = 0]
          /\ clFails' = [clFails EXCEPT ![r] = 0]
          /\ UNCHANGED <<clErr, clFired>>
       \/ /\ out = "fail"
          /\ clPc[r] = "connect0"
          /\ clPc' = [clPc EXCEPT ![r] = "returned"]
          /\ clErr' = [clErr EXCEPT ![r] = IF clDone[r] THEN "canceled" ELSE "error"]
          /\ UNCHANGED <<clDelay, clFired, clFails>>
       \/ /\ out = "fail"
          /\ clPc[r] = "connect"
          /\ clPc' = [clPc EXCEPT ![r] = "select"]
          /\ clDelay' = [clDelay EXCEPT ![r] = NextBackoff(@)]
          /\ clFired' = [clFired EXCEPT ![r] = FALSE]
          /\ clFails' = [clFails EXCEPT ![r] = @ + 1]
          /\ UNCHANGED clErr
       \/ /\ out = "rejected"
          /\ \E wrapped \in {Nil, "error"} :
                /\ clPc' = [clPc EXCEPT ![r] =
                        IF wrapped = Nil THEN "panic"
                        ELSE IF clPc[r] = "connect0" THEN "returned" ELSE "select"]
                /\ clErr' = [clErr EXCEPT ![r] =
                        IF wrapped # Nil /\ clPc[r] = "connect0" THEN "error" ELSE @]
                /\ clDelay' = [clDelay EXCEPT ![r] =
                        IF wrapped # Nil /\ clPc[r] = "connect" THEN NextBackoff(@) ELSE @]
                /\ clFails' = [clFails EXCEPT ![r] =
                        IF wrapped # Nil /\ clPc[r] = "connect" THEN @ + 1 ELSE @]
                /\ clFired' = [clFired EXCEPT ![r] =
                        IF wrapped # Nil /\ clPc[r] = "connect" THEN FALSE ELSE @]
    /\ UNCHANGED <<clDone, clCut, outsideClient>>

\* runConnection returns: run returns a context.Canceled error, and calls
\* reconnect after anything else, nil included
ClSessionEnd(r, err) ==
    /\ clPc[r] = "session"
    /\ err \in {Nil, "error", "canceled"}
    /\ err = "canceled" => clDone[r]
    /\ IF err = "canceled"
       THEN /\ clPc' = [clPc EXCEPT ![r] = "returned"]
            /\ clErr' = [clErr EXCEPT ![r] = err]
            /\ UNCHANGED <<clDelay, clFired>>
       ELSE /\ clPc' = [clPc EXCEPT ![r] = "select"]
            /\ clDelay' = [clDelay EXCEPT ![r] = MinBackoff]
            /\ clFired' = [clFired EXCEPT ![r] = FALSE]
            /\ UNCHANGED clErr
    /\ UNCHANGED <<clDone, clDials, clRetoken, clGranted, clSent, clFails, clCut,
                   outsideClient>>

\* reconnect reaches its select: a ready case is taken, any of them when
\* both are ready; with none the goroutine parks
ClSelect(r, case) ==
    /\ clPc[r] = "select"
    /\ LET cases == SelectCases(clDone[r], clFired[r])
       IN  /\ cases # {} => case \in cases
           /\ clPc' = [clPc EXCEPT ![r] = AfterSelect("parked", cases, case)]
           /\ clErr' = [clErr EXCEPT ![r] =
                    IF cases # {} /\ case = "done" THEN "canceled" ELSE @]
    /\ UNCHANGED <<clDone, clDials, clRetoken, clGranted, clSent, clDelay, clFired,
                   clFails, clCut, outsideClient>>

\* the timer of reconnect fires; a parked select takes its case
ClTimer(r) ==
    /\ clPc[r] \in {"select", "parked"}
    /\ ~clFired[r]
    /\ clFired' = [clFired EXCEPT ![r] = TRUE]
    /\ clPc' = [clPc EXCEPT ![r] =
            IF @ = "parked" THEN AfterSelect(@, SelectCases(FALSE, TRUE), "timer") ELSE @]
    /\ UNCHANGED <<clDone, clErr, clDials, clRetoken, clGranted, clSent, clDelay,
                   clFails, clCut, outsideClient>>

\* the context is cancelled; a parked select takes its case
ClCancel(r) ==
    /\ ~clDone[r]
    /\ clPc[r] \notin {"returned", "panic"}
    /\ clDone' = [clDone EXCEPT ![r] = TRUE]
    /\ LET pc == IF clPc[r] = "parked"
                 THEN AfterSelect("parked", SelectCases(TRUE, FALSE), "done")
                 ELSE clPc[r]
       IN  /\ clPc' = [clPc EXCEPT ![r] = pc]
           /\ clErr' = [clErr EXCEPT ![r] = IF pc = "returned" THEN "canceled" ELSE @]
    /\ clCut' = [clCut EXCEPT ![r] = IF clPc[r] = "parked" THEN clDials[r] ELSE @]
    /\ UNCHANGED <<clDials, clRetoken, clGranted, clSent, clDelay, clFired, clFails,
                   outsideClient>>

(***************************************************************************)
(* Source.RunControl: supervisor, self-descriptor writer, peers reader     *)
(***************************************************************************)
\* the descriptors written and the responses read on one stream
MaxMsgs == 2

CancelReadNever(called, code) == called
\* stream.CancelRead(code): reads of the stream fail from now on
CancelRead(called, code) == TRUE

\* conn.OpenStreamSync: RunControl returns its error, or starts the tasks
SrcOpenStream(ok) ==
    /\ scPc = "open"
    /\ scPc' = IF ok /\ ~scOuter THEN "running" ELSE "returned"
    /\ UNCHANGED <<scOuter, scCtx, scSup, scWr, scRd, scCancelRead, scWrites, scReads,
                   outsideSource>>

\* the context RunControl was called with is cancelled, and the
\* errgroup's context with it
SrcCancel ==
    /\ ~scOuter
    /\ scPc # "returned"
    /\ scOuter' = TRUE
    /\ scCtx' = TRUE
    /\ UNCHANGED <<scPc, scSup, scWr, scRd, scCancelRead, scWrites, scReads, outsideSource>>

\* the supervisor: <-ctx.Done(); stream.CancelRead(0); return nil
SrcSupervisor ==
    /\ scPc = "running"
    /\ scSup = "wait"
    /\ scCtx
    /\ scCancelRead' = CancelRead(scCancelRead, 0)
    /\ scSup' = "done"
    /\ UNCHANGED <<scPc, scOuter, scCtx, scWr, scRd, scWrites, scReads, outsideSource>>

\* selfListen: the self descriptor changed and the callback is called, or
\* the context is done and selfListen returns its error
SrcSelfListen(changed) ==
    /\ scPc = "running"
    /\ scWr = "listen"
    /\ IF changed
       THEN /\ scWrites < MaxMsgs
            /\ scWr' = "write"
       ELSE /\ scCtx
            /\ scWr' = "done"
    /\ UNCHANGED <<scPc, scOuter, scCtx, scSup, scRd, scCancelRead, scWrites, scReads,
                   outsideSource>>

\* the callback's pb.Write returns; its error ends the writer and cancels
\* the errgroup's context
SrcWrite(ok) ==
    /\ scPc = "running"
    /\ scWr = "write"
    /\ scWrites' = scWrites + 1
    /\ scWr' = IF ok THEN "listen" ELSE "done"
    /\ scCtx' = (scCtx \/ ~ok)
    /\ UNCHANGED <<scPc, scOuter, scSup, scRd, scCancelRead, scReads, outsideSource>>

\* the reader: a response arrives; without Source, or unreadable, it ends
\* the reader and cancels the errgroup's context
SrcRead(msg) ==
    /\ scPc = "running"
    /\ scRd = "read"
    /\ ~scCancelRead
    /\ scReads < MaxMsgs
    /\ scReads' = scReads + 1
    /\ scRd' = IF msg = "peers" THEN "read" ELSE "done"
    /\ scCtx' = (scCtx \/ msg # "peers")
    /\ UNCHANGED <<scPc, scOuter, scSup, scWr, scCancelRead, scWrites, outsideSource>>

\* the reader: pbs.ReadResponse fails on the stream whose read was cancelled
SrcReadCancelled ==
    /\ scPc = "running"
    /\ scRd = "read"
    /\ scCancelRead
    /\ scRd' = "done"
    /\ UNCHANGED <<scPc, scOuter, scCtx, scSup, scWr, scCancelRead, scWrites, scReads,
                   outsideSource>>

\* g.Wait() returns once the three tasks have, and so does RunControl
SrcWait ==
    /\ scPc = "running"
    /\ scSup = "done"
    /\ scWr = "done"
    /\ scRd = "done"
    /\ scPc' = "returned"
    /\ UNCHANGED <<scOuter, scCtx, scSup, scWr, scRd, scCancelRead, scWrites, scReads,
                   outsideSource>>

(***************************************************************************)
(* The data path: Source.runConn and destinationsDialer.runRequest         *)
(***************************************************************************)
\* the active connections of a peer
MaxActive == 2
ActiveLists == UNION {[1..n -> BOOLEAN] : n \in 0..MaxActive}

findActiveFirstOnly(active) == IF Len(active) > 0 /\ active[1] THEN 1 ELSE 0
\* Source.findActive: the first connection on which OpenStreamSync
\* succeeds, 0 ("could not find conn") without one
findActive(active) ==
    IF \E i \in 1..Len(active) : active[i]
    THEN CHOOSE i \in 1..Len(active) : active[i] /\ \A j \in 1..(i - 1) : ~active[j]
    ELSE 0

ReadResponseAny(r) == IF r = "unreadable" THEN "error" ELSE Nil
\* pbc.ReadResponse: the error of pb.Read, or the Error of the response
ReadResponse(r) == IF r \in {"unreadable", "error"} THEN "error" ELSE Nil

\* l.Accept returns a TCP connection; runConnErr calls findActive and
\* returns "could not find route" without a stream; runConn closes conn
SrcRunConn(active) ==
    /\ tcPc \in {"idle", "closed"}
    /\ tcActive' = active
    /\ tcStream' = findActive(active)
    /\ tcPc' = IF tcStream' = 0 THEN "closed" ELSE "write"
    /\ tcErr' = IF tcStream' = 0 THEN "could not find route" ELSE Nil
    /\ tcWrote' = FALSE
    /\ tcResp' = Nil
    /\ tcJoined' = FALSE
    /\ UNCHANGED <<ddPc, ddReq, ddResps, ddDialed, ddJoined, outsideData>>

\* runConnErr: pb.Write of the Connect request
SrcWriteConnect(ok) ==
    /\ tcPc = "write"
    /\ tcWrote' = ok
    /\ tcPc' = IF ok THEN "read" ELSE "closed"
    /\ tcErr' = IF ok THEN Nil ELSE "could not write request"
    /\ UNCHANGED <<tcActive, tcStream, tcResp, tcJoined,
                   ddPc, ddReq, ddResps, ddDialed, ddJoined, outsideData>>

\* runConnErr: pbc.ReadResponse, then netc.Join
SrcReadResponse(r) ==
    /\ tcPc = "read"
    /\ tcResp' = r
    /\ tcJoined' = (ReadResponse(r) = Nil)
    /\ tcPc' = IF tcJoined' THEN "join" ELSE "closed"
    /\ tcErr' = IF tcJoined' THEN Nil ELSE "could not read response"
    /\ UNCHANGED <<tcActive, tcStream, tcWrote,
                   ddPc, ddReq, ddResps, ddDialed, ddJoined, outsideData>>

\* netc.Join returns; runConnErr returns nil and runConn closes conn
SrcJoinEnd ==
    /\ tcPc = "join"
    /\ tcPc' = "closed"
    /\ UNCHANGED <<tcActive, tcStream, tcWrote, tcResp, tcJoined, tcErr,
                   ddPc, ddReq, ddResps, ddDialed, ddJoined, outsideData>>

\* runRequestErr: pbc.ReadRequest; its error is returned, and runRequest
\* closes the stream
DstReadRequest(req) ==
    /\ ddPc \in {"idle", "closed"}
    /\ ddReq' = req
    /\ ddPc' = IF req = "unreadable" THEN "closed" ELSE "respond"
    /\ ddResps' = <<>>
    /\ ddDialed' = FALSE
    /\ ddJoined' = FALSE
    /\ UNCHANGED <<tcPc, tcActive, tcStream, tcWrote, tcResp, tcJoined, tcErr, outsideData>>

\* connect and unknown: the Response each case passes to pb.Write, and
\* whether net.Dial is called before it
Respond(req, dialOk) ==
    IF req = "other" THEN [resp |-> "RequestUnknown", dial |-> FALSE]
    ELSE IF req = "connect-absent" THEN [resp |-> "DestinationNotFound", dial |-> FALSE]
    ELSE IF ~dialOk THEN [resp |-> "DestinationDialFailed", dial |-> TRUE]
    ELSE [resp |-> "ok", dial |-> TRUE]

\* runRequestErr after the request was read: connect or unknown, up to
\* the call of netc.Join
DstRespond(dialOk, writeOk) ==
    /\ ddPc = "respond"
    /\ LET r == Respond(ddReq, dialOk)
       IN  /\ ddResps' = Append(ddResps, r.resp)
           /\ ddDialed' = r.dial
           /\ ddJoined' = (r.resp = "ok" /\ writeOk)
           /\ ddPc' = IF ddJoined' THEN "join" ELSE "closed"
    /\ UNCHANGED <<ddReq, tcPc, tcActive, tcStream, tcWrote, tcResp, tcJoined, tcErr,
                   outsideData>>

\* netc.Join returns; connect closes the dialed connection and returns
DstJoinEnd ==
    /\ ddPc = "join"
    /\ ddPc' = "closed"
    /\ UNCHANGED <<ddReq, ddResps, ddDialed, ddJoined,
                   tcPc, tcActive, tcStream, tcWrote, tcResp, tcJoined, tcErr, outsideData>>

(***************************************************************************)
(* Source: what a forward's RouteOption lets it advertise                  *)
(***************************************************************************)
RouteOptions == {"any", "direct", "relay"}
\* the connections to the control server one client makes
MaxConnects == 2

\* model.RouteOption: AllowDirect and AllowRelay
Allows(opt, route) == opt = "any" \/ opt = route

SetDirectUngated(direct, allowed, route) == route
\* SetDirectAddrs: returns at once when direct is not allowed, and calls
\* peer.setDirect otherwise
SetDirect(direct, allowed, route) == IF allowed THEN route ELSE direct

\* Client.connect calls SetDirectAddrs of every source after each
\* authentication
RtSetDirectAddrs(o, addrs) ==
    /\ rtCalls[o] < MaxConnects
    /\ rtCalls' = [rtCalls EXCEPT ![o] = @ + 1]
    /\ rtDirect' = [rtDirect EXCEPT ![o] = SetDirect(@, Allows(o, "direct"), addrs)]
    /\ UNCHANGED <<rtRelays, rtOpen, rtOpened, outsideRoute>>

\* RunRelay: returns nil when relay is not allowed, and otherwise opens
\* the stream and writes the SourceRelay request
RtRunRelay(o) ==
    /\ ~rtOpen[o]
    /\ rtOpened[o] < MaxConnects
    /\ rtOpen' = [rtOpen EXCEPT ![o] = Allows(o, "relay")]
    /\ rtOpened' = [rtOpened EXCEPT ![o] = IF Allows(o, "relay") THEN @ + 1 ELSE @]
    /\ UNCHANGED <<rtDirect, rtRelays, rtCalls, outsideRoute>>

\* RunRelay's reader: a response with relays is passed to peer.setRelays;
\* any other ends the stream
RtRelayResponse(o, ok, relays) ==
    /\ rtOpen[o]
    /\ rtRelays' = [rtRelays EXCEPT ![o] = IF ok THEN relays ELSE @]
    /\ rtOpen' = [rtOpen EXCEPT ![o] = ok]
    /\ UNCHANGED <<rtDirect, rtCalls, rtOpened, outsideRoute>>

(***************************************************************************)
(* control server: runListener, relayServer.handle and relayConn.run       *)
(***************************************************************************)
\* the relay connections the listener accepts
MaxAccepts == 3

runReturnsErr(err) == err
\* relayConn.run: the error of runErr is logged; run is a goroutine of its
\* own and hands nothing to the errgroup of Server.Run
run(err) == Nil

\* l.Accept returns a connection of protocol "connet-relays"; handle
\* starts rc.run in a goroutine and returns nil
LsAccept(hp) ==
    /\ lsPc = "accept"
    /\ ~lsCtx
    /\ lsAccepts < MaxAccepts
    /\ rlPc[hp] \in {"none", "closed"}
    /\ lsAccepts' = lsAccepts + 1
    /\ rlPc' = [rlPc EXCEPT ![hp] = "auth"]
    /\ rlClose' = [rlClose EXCEPT ![hp] = <<>>]
    /\ UNCHANGED <<lsPc, lsCtx, rlOffset, outsideListen>>

\* the context of Server.Run is cancelled: l.Accept fails and runListener
\* returns
LsCancel ==
    /\ ~lsCtx
    /\ lsCtx' = TRUE
    /\ lsPc' = "returned"
    /\ UNCHANGED <<lsAccepts, rlPc, rlOffset, rlClose, outsideListen>>

\* relayConn.runErr: authenticate; its error closes the connection with
\* AuthenticationFailed and ends run
RlAuthenticate(hp, ok) ==
    /\ rlPc[hp] = "auth"
    /\ lsCtx => ~ok
    /\ rlPc' = [rlPc EXCEPT ![hp] = IF ok THEN "running" ELSE "closed"]
    /\ rlClose' = [rlClose EXCEPT ![hp] =
            IF ok THEN @ ELSE <<Error_AuthenticationFailed>>]
    /\ lsCtx' = (lsCtx \/ (~ok /\ run("error") # Nil))
    /\ lsPc' = IF lsCtx' THEN "returned" ELSE lsPc
    /\ UNCHANGED <<lsAccepts, rlOffset, outsideListen>>

\* runRelayServers applies a ServersResp and stores its offset under the
\* connection's hostport; a stream error, an unparsable certificate or an
\* unknown change type ends runErr, and run closes the connection
RlServers(hp, fault) ==
    /\ rlPc[hp] = "running"
    /\ lsCtx => fault = "stream"
    /\ IF fault = "none"
       THEN /\ rlOffset[hp] < MaxLog
            /\ rlOffset' = [rlOffset EXCEPT ![hp] = @ + 1]
            /\ UNCHANGED <<rlPc, rlClose, lsCtx, lsPc>>
       ELSE /\ rlPc' = [rlPc EXCEPT ![hp] = "closed"]
            /\ rlClose' = [rlClose EXCEPT ![hp] = <<CloseDone>>]
            /\ lsCtx' = (lsCtx \/ run("error") # Nil)
            /\ lsPc' = IF lsCtx' THEN "returned" ELSE lsPc
            /\ UNCHANGED rlOffset
    /\ UNCHANGED <<lsAccepts, outsideListen>>

(***************************************************************************)
(* control: relayServer.listen over getForward and Consume                 *)
(***************************************************************************)
NoListen == [pc |-> "idle", fwd |-> Zero, servers |-> EmptyMap, offset |-> OffsetInvalid,
             shared |-> FALSE, notified |-> FALSE]

\* the forward the listening client asks for
Watched == "f1"

\* what the relays publish while it listens: both relays serve the
\* watched forward, and one of them another forward
WatchPublished == {p \in Published : p[3] = "cert1"}

CloneAlias(m) == [m |-> m, shared |-> DOMAIN m # {}]
\* maps.Clone: a map of its own storage
Clone(m) == [m |-> m, shared |-> FALSE]

RECURSIVE ListenApplyAll(_, _, _)
ListenApplyAll(srv, msgs, fwd) ==
    IF msgs = <<>> THEN [servers |-> srv, changed |-> FALSE]
    ELSE LET msg == Head(msgs)
             nxt == IF msg.Delete THEN MapDelete(srv, msg.Key.Hostport)
                    ELSE MapSet(srv, msg.Key.Hostport, msg.Value)
         IN  [servers |-> ListenApplyAll(nxt, Tail(msgs), fwd).servers, changed |-> TRUE]

\* listen's loop over one batch: the messages of fwd change the map
RECURSIVE ListenApply(_, _, _)
ListenApply(srv, msgs, fwd) ==
    IF msgs = <<>> THEN [servers |-> srv, changed |-> FALSE]
    ELSE LET msg == Head(msgs)
             mine == msg.Key.Forward = fwd
             nxt == IF ~mine THEN srv
                    ELSE IF msg.Delete THEN MapDelete(srv, msg.Key.Hostport)
                    ELSE MapSet(srv, msg.Key.Hostport, msg.Value)
             rest == ListenApply(nxt, Tail(msgs), fwd)
         IN  [servers |-> rest.servers, changed |-> mine \/ rest.changed]

\* listen: servers, offset := s.getForward(fwd), and the first notifyFn
\* when the map is not empty
ListenStart(r, fwd) ==
    /\ ln[r].pc = "idle"
    /\ LET c == Clone(MapGet(forwardsCache, fwd))
       IN  ln' = [ln EXCEPT ![r] = [pc |-> "consume", fwd |-> fwd, servers |-> c.m,
                                   offset |-> forwardsOffset, shared |-> c.shared,
                                   notified |-> DOMAIN c.m # {}]]
    /\ UNCHANGED <<fwdVars, outsideWatch>>

\* listen: one Consume, its messages applied, and notifyFn if any was of
\* fwd; a map that shares the cache's storage changes the cache with it
ListenConsume(r) ==
    /\ ln[r].pc = "consume"
    /\ WaitReady(relayServers, ln[r].offset)
    /\ LET b == Consume(relayServers, ln[r].offset)
           a == ListenApply(ln[r].servers, b.msgs, ln[r].fwd)
       IN  /\ ln' = [ln EXCEPT ![r].servers = a.servers,
                               ![r].offset = b.next,
                               ![r].notified = a.changed]
           /\ forwardsCache' = IF ln[r].shared /\ ln[r].fwd \in DOMAIN forwardsCache
                               THEN MapSet(forwardsCache, ln[r].fwd, a.servers)
                               ELSE forwardsCache
    /\ UNCHANGED <<relayServers, fwdRest2, outsideWatch>>

\* notifyFn fails, or the context is done: listen returns
ListenEnd(r) ==
    /\ ln[r].pc = "consume"
    /\ ln' = [ln EXCEPT ![r] = NoListen]
    /\ UNCHANGED <<fwdVars, outsideWatch>>

(***************************************************************************)
(* The clients stream with kv.Snapshot running against the writers of       *)
(* relay-clients                                                           *)
(***************************************************************************)
\* the offsets of the messages the Allow filter lets through
AllowedOffsets(auth, msgs) ==
    {msgs[i].Offset : i \in {j \in DOMAIN msgs : Allow(auth, msgs[j].Key.Forward)}}

\* runRelayClients: pb.Read of the ClientsReq the relay wrote with its
\* stored offset; for OffsetOldest Snapshot starts and reads maxOffset
StreamRead ==
    /\ connected
    /\ rcPc = "idle"
    /\ respReq' = relayOffset
    /\ IF relayOffset = OffsetOldest
       THEN /\ rcPc' = "snapshot"
            /\ stMax' = NextOffset(relayClients)
            /\ stOff' = OffsetOldest
            /\ stSum' = EmptyMap
       ELSE /\ rcPc' = "consume"
            /\ UNCHANGED <<stMax, stOff, stSum>>
    /\ UNCHANGED <<relayClients, sess, relayAuth, connected, relayOffset, resp, clients,
                   stMsgs, outsideStream>>

\* Snapshot: one iteration of "for offset < maxOffset"
StreamSnapConsume ==
    /\ connected
    /\ rcPc = "snapshot"
    /\ stOff < stMax
    /\ LET r == LogConsume(relayClients, stOff, MaxCount)
       IN  /\ stOff' = r.next
           /\ stSum' = SnapFold(stSum, r.msgs)
    /\ UNCHANGED <<rcVars, stMax, stMsgs, outsideStream>>

\* Snapshot returns the sorted values and maxOffset; the response is built
\* and written
StreamSnapReturn ==
    /\ connected
    /\ rcPc = "snapshot"
    /\ ~(stOff < stMax)
    /\ LET msgs == SortedByOffset(MapValues(stSum))
       IN  /\ resp' = [Offset |-> stMax, Changes |-> ClientsChanges(relayAuth, msgs)]
           /\ stMsgs' = AllowedOffsets(relayAuth, msgs)
    /\ rcPc' = "resp"
    /\ UNCHANGED <<relayClients, sess, relayAuth, connected, relayOffset, respReq, clients,
                   stMax, stOff, stSum, outsideStream>>

\* Consume(ctx, req.Offset) returns; the response is built and written
StreamConsume ==
    /\ connected
    /\ rcPc = "consume"
    /\ WaitReady(relayClients, respReq)
    /\ LET r == Consume(relayClients, respReq)
       IN  /\ resp' = [Offset |-> r.next, Changes |-> ClientsChanges(relayAuth, r.msgs)]
           /\ stMsgs' = AllowedOffsets(relayAuth, r.msgs)
    /\ rcPc' = "resp"
    /\ UNCHANGED <<relayClients, sess, relayAuth, connected, relayOffset, respReq, clients,
                   stMax, stOff, stSum, outsideStream>>

(***************************************************************************)
(* The relay's state per control server                                    *)
(***************************************************************************)
\* the ids of the control servers the relay's address may lead to
ControlIds == {"idA", "idB"}

\* the highest offset a control server hands out
MaxWater == 2

setServerIDKeepState(state, open, serverID, closeOk, loadOk) ==
    IF state # Nil
    THEN [state |-> state, open |-> open, ret |-> state, err |-> Nil]
    ELSE [state |-> serverID, open |-> open \cup {serverID}, ret |-> serverID, err |-> Nil]

\* setServerID: the same id returns the state; another id closes the
\* state's logs and falls through to loading the state of serverID from its
\* own directory; s.state is stored only once that has succeeded
setServerID(state, open, serverID, closeOk, loadOk) ==
    IF state # Nil /\ state = serverID
    THEN [state |-> state, open |-> open, ret |-> state, err |-> Nil]
    ELSE IF state # Nil /\ ~closeOk
    THEN [state |-> state, open |-> open \ {state}, ret |-> Nil, err |-> "close"]
    ELSE IF ~loadOk
    THEN [state |-> state, open |-> open \ {state}, ret |-> Nil, err |-> "load"]
    ELSE [state |-> serverID, open |-> (open \ {state}) \cup {serverID},
          ret |-> serverID, err |-> Nil]

\* connect, or reconnect: the control server at the address authenticates
\* the relay and reports its ControlId
SwConnect(id) ==
    /\ swPc = "idle"
    /\ swPc' = "connected"
    /\ swServerID' = id
    /\ UNCHANGED <<swState, swOpen, swDisk, swGiven, swUsed, swReq, outsideSwitch>>

\* runConnection: setServerID(serverID); on an error it returns and the
\* connection is closed, else the four tasks start on the state
SwRunConnection(closeOk, loadOk) ==
    /\ swPc = "connected"
    /\ LET r == setServerID(swState, swOpen, swServerID, closeOk, loadOk)
       IN  /\ swState' = r.state
           /\ swOpen' = r.open
           /\ swUsed' = r.ret
           /\ swPc' = IF r.err = Nil THEN "running" ELSE "idle"
    /\ UNCHANGED <<swDisk, swGiven, swServerID, swReq, outsideSwitch>>

\* runClientsStream, one round on a state with open logs: the request
\* carries getClientOffset(), the response's offset is stored with
\* setClientOffset
SwClientsRound(offset) ==
    /\ swPc = "running"
    /\ swUsed \in swOpen
    /\ offset > swGiven[swServerID]
    /\ swReq' = <<swServerID, swDisk[swUsed]>>
    /\ swDisk' = [swDisk EXCEPT ![swUsed] = offset]
    /\ swGiven' = [swGiven EXCEPT ![swServerID] = offset]
    /\ UNCHANGED <<swState, swOpen, swPc, swServerID, swUsed, outsideSwitch>>

\* the session ends (a task failed, as every task on closed logs does, or
\* the connection broke): runConnection returns after all four tasks
SwSessionEnd ==
    /\ swPc = "running"
    /\ swPc' = "idle"
    /\ swUsed' = Nil
    /\ UNCHANGED <<swState, swOpen, swDisk, swGiven, swServerID, swReq, outsideSwitch>>

(***************************************************************************)
(* The error groups of one relay session: relayConn.runErr at the control  *)
(* server, controlClient.runConnection at the relay                        *)
(***************************************************************************)
Sides == {"control", "relay"}
\* the tasks that read a request, Consume and write the response
Serving == {"runRelayClients", "runServersStream"}
\* the tasks that write a request and read the response
Requesting == {"runClientsStream", "runRelayServers"}
\* the tasks that only Consume a log
LogTasks == {"runClientsLog", "runServersLog"}
GroupTasks == Serving \cup Requesting \cup LogTasks
SideOf(t) == IF t \in {"runRelayClients", "runRelayServers"} THEN "control" ELSE "relay"
TasksOf(side) == {t \in GroupTasks : SideOf(t) = side}
\* the directions of the clients stream and of the servers stream
Dirs == {"ClientsReq", "ClientsResp", "ServersReq", "ServersResp"}
RDir(t) ==
    CASE t = "runRelayClients" -> "ClientsReq"
      [] t = "runClientsStream" -> "ClientsResp"
      [] t = "runServersStream" -> "ServersReq"
      [] t = "runRelayServers" -> "ServersResp"
WDir(t) ==
    CASE t = "runRelayClients" -> "ClientsResp"
      [] t = "runClientsStream" -> "ClientsReq"
      [] t = "runServersStream" -> "ServersResp"
      [] t = "runRelayServers" -> "ServersReq"
\* the relay's stream tasks run a second goroutine that calls
\* stream.CancelRead once the context is done
HasWatcher(t) == t \in {"runClientsStream", "runServersStream"}

ReadFailsOnCloseOnly(t) == gConn = "closed"

\* pb.Read on the task's stream returns an error: the connection is
\* closed, the peer's task has returned and closed the stream, or the
\* task's own watcher has cancelled the read
ReadFails(t) == gConn = "closed" \/ gFin[RDir(t)] \/ gStop[RDir(t)]

\* pb.Write fails: the connection is closed or the peer cancelled its read
WriteFails(t) == gConn = "closed" \/ gStop[WDir(t)]

\* the task returns its error: the errgroup cancels the context, the
\* deferred stream.Close() runs, and a watcher has cancelled the read
Return(t) ==
    /\ gPc' = [gPc EXCEPT ![t] = "done"]
    /\ gCtx' = [gCtx EXCEPT ![SideOf(t)] = TRUE]
    /\ gFin' = IF t \in LogTasks THEN gFin ELSE [gFin EXCEPT ![WDir(t)] = TRUE]
    /\ gStop' = IF HasWatcher(t) THEN [gStop EXCEPT ![RDir(t)] = TRUE] ELSE gStop
    /\ gFirst' = IF gFirst[SideOf(t)] = Nil THEN [gFirst EXCEPT ![SideOf(t)] = t] ELSE gFirst

\* a requesting task writes its request
GroupWrite(t) ==
    /\ t \in Requesting
    /\ gPc[t] = "run"
    /\ IF WriteFails(t)
       THEN Return(t) /\ UNCHANGED gMsg
       ELSE /\ gMsg' = [gMsg EXCEPT ![WDir(t)] = 1]
            /\ gPc' = [gPc EXCEPT ![t] = "read"]
            /\ UNCHANGED <<gCtx, gFin, gStop, gFirst>>
    /\ UNCHANGED <<gRet, gConn, gData, outsideGroup>>

\* pb.Read returns: with the message the peer wrote, or with an error
GroupRead(t) ==
    /\ t \in Serving \cup Requesting
    /\ gPc[t] = "read"
    /\ \/ /\ gMsg[RDir(t)] = 1
          /\ gConn = "open"
          /\ ~gStop[RDir(t)]
          /\ gMsg' = [gMsg EXCEPT ![RDir(t)] = 0]
          /\ gPc' = [gPc EXCEPT ![t] = IF t \in Serving THEN "consume" ELSE "run"]
          /\ UNCHANGED <<gCtx, gFin, gStop, gFirst>>
       \/ /\ ReadFails(t)
          /\ gMsg[RDir(t)] = 0 \/ gConn = "closed" \/ gStop[RDir(t)]
          /\ Return(t)
          /\ UNCHANGED gMsg
    /\ UNCHANGED <<gRet, gConn, gData, outsideGroup>>

\* Consume of a serving task returns: with a record, and the response is
\* written, or with the context's error
GroupConsume(t) ==
    /\ t \in Serving
    /\ gPc[t] = "consume"
    /\ \/ /\ gData[t]
          /\ gData' = [gData EXCEPT ![t] = FALSE]
          /\ IF WriteFails(t)
             THEN Return(t) /\ UNCHANGED gMsg
             ELSE /\ gMsg' = [gMsg EXCEPT ![WDir(t)] = 1]
                  /\ gPc' = [gPc EXCEPT ![t] = "read"]
                  /\ UNCHANGED <<gCtx, gFin, gStop, gFirst>>
       \/ /\ gCtx[SideOf(t)]
          /\ Return(t)
          /\ UNCHANGED <<gMsg, gData>>
    /\ UNCHANGED <<gRet, gConn, outsideGroup>>

\* Consume of runClientsLog or runServersLog returns the context's error
GroupLogConsume(t) ==
    /\ t \in LogTasks
    /\ gPc[t] = "consume"
    /\ gCtx[SideOf(t)]
    /\ Return(t)
    /\ UNCHANGED <<gRet, gConn, gMsg, gData, outsideGroup>>

\* a task fails on its own: a change that does not parse, a log error
GroupFail(t) ==
    /\ \/ t \in Requesting /\ gPc[t] = "run"
       \/ t \in Serving \cup LogTasks /\ gPc[t] = "consume"
    /\ Return(t)
    /\ UNCHANGED <<gRet, gConn, gMsg, gData, outsideGroup>>

\* the watcher of a relay's stream task: <-ctx.Done(), stream.CancelRead(0)
GroupWatch(t) ==
    /\ HasWatcher(t)
    /\ gPc[t] # "done"
    /\ gCtx[SideOf(t)]
    /\ ~gStop[RDir(t)]
    /\ gStop' = [gStop EXCEPT ![RDir(t)] = TRUE]
    /\ UNCHANGED <<gPc, gCtx, gRet, gConn, gMsg, gFin, gData, gFirst, outsideGroup>>

\* g.Wait() returns once every task has; the deferred CloseWithError runs
GroupWait(side) ==
    /\ ~gRet[side]
    /\ \A t \in TasksOf(side) : gPc[t] = "done"
    /\ gRet' = [gRet EXCEPT ![side] = TRUE]
    /\ gConn' = "closed"
    /\ UNCHANGED <<gPc, gCtx, gMsg, gFin, gStop, gData, gFirst, outsideGroup>>

\* a record is appended to the log a serving task consumes
GroupData(t) ==
    /\ t \in Serving
    /\ ~gData[t]
    /\ gData' = [gData EXCEPT ![t] = TRUE]
    /\ UNCHANGED <<gPc, gCtx, gRet, gConn, gMsg, gFin, gStop, gFirst, outsideGroup>>

(***************************************************************************)
(* relay: the servers log derived from the clients log by runClientsLog,    *)
(* and serverByName derived from the servers log by runServersLog          *)
(***************************************************************************)
\* the longest servers log runClientsLog builds
MaxDerived == 4

serverKey(f) == [Forward |-> f]

\* runClientsStream applies a Put change to the clients log
ReplayPut(f, role, cert) ==
    /\ Len(rpClients) < MaxLog
    /\ Get(rpClients, clientKey(f, role, cert)).err # Nil
    /\ rpClients' = Put(rpClients, clientKey(f, role, cert), cert)
    /\ UNCHANGED <<rpServers, rpGen, rpCOff, rpCHigh, rpSOff, rpByName, rpDown,
                   outsideReplay>>

\* runClientsStream applies a Del change to the clients log
ReplayDel(f, role, cert) ==
    /\ Len(rpClients) < MaxLog
    /\ Get(rpClients, clientKey(f, role, cert)).err = Nil
    /\ rpClients' = Del(rpClients, clientKey(f, role, cert))
    /\ UNCHANGED <<rpServers, rpGen, rpCOff, rpCHigh, rpSOff, rpByName, rpDown,
                   outsideReplay>>

\* runClientsLog, the body of its loop for one message: the servers record
\* of the forward, or a new one with a generated name, gets the client
\* added or removed, and is Put, or Del when no client is left
ClientsLogApply(l, gen, msg) ==
    LET got == Get(l, serverKey(msg.Key.Forward))
        sv == IF got.err = Nil THEN got.v ELSE [Name |-> <<"connet-relay", gen>>, Clients |-> {}]
        cls == IF msg.Delete THEN sv.Clients \ {<<msg.Key.Role, msg.Key.Key[2]>>}
               ELSE sv.Clients \cup {<<msg.Key.Role, msg.Key.Key[2]>>}
    IN  [log |-> IF cls = {} THEN Del(l, serverKey(msg.Key.Forward))
                 ELSE Put(l, serverKey(msg.Key.Forward), [Name |-> sv.Name, Clients |-> cls]),
         gen |-> IF got.err = Nil THEN gen ELSE gen + 1]

\* runClientsLog handles the next message of the clients log
ReplayClientsLog ==
    /\ rpDown = Nil
    /\ rpCOff < Len(rpClients)
    /\ Len(rpServers) < MaxDerived
    /\ LET r == ClientsLogApply(rpServers, rpGen, ToMessage(rpClients[rpCOff + 1]))
       IN  /\ rpServers' = r.log
           /\ rpGen' = r.gen
    /\ rpCOff' = rpCOff + 1
    /\ rpCHigh' = IF rpCOff + 1 > rpCHigh THEN rpCOff + 1 ELSE rpCHigh
    /\ UNCHANGED <<rpClients, rpSOff, rpByName, rpDown, outsideReplay>>

\* runServersLog handles the next message of the servers log: upsert,
\* whatever the message is; a tombstone has no name and no certificate, and
\* upsert's newRelayServer ends in a panic or in an error on it
ReplayServersLog(fault) ==
    /\ rpDown = Nil
    /\ rpSOff < Len(rpServers)
    /\ LET msg == ToMessage(rpServers[rpSOff + 1])
       IN  IF msg.Delete
           THEN /\ rpDown' = fault
                /\ UNCHANGED <<rpByName, rpSOff>>
           ELSE LET r == IF msg.Value.Name \in DOMAIN rpByName
                         THEN update(rpByName[msg.Value.Name], msg)
                         ELSE newRelayServer(msg)
                IN  IF r.panic
                    THEN /\ rpDown' = "panic"
                         /\ UNCHANGED <<rpByName, rpSOff>>
                    ELSE /\ rpByName' = MapSet(rpByName, msg.Value.Name, r.srv)
                         /\ rpSOff' = rpSOff + 1
                         /\ UNCHANGED rpDown
    /\ UNCHANGED <<rpClients, rpServers, rpGen, rpCOff, rpCHigh, outsideReplay>>

\* the session ends and the relay connects again: runConnection starts
\* runClientsLog and runServersLog from OffsetOldest on the same state
ReplayReconnect ==
    /\ rpDown \in {Nil, "error"}
    /\ rpCOff > 0 \/ rpSOff > 0 \/ rpDown # Nil
    /\ rpCOff' = 0
    /\ rpSOff' = 0
    /\ rpDown' = Nil
    /\ UNCHANGED <<rpClients, rpServers, rpGen, rpCHigh, rpByName, outsideReplay>>

\* the relay's process starts again after a panic: newControlServerState
\* builds serverByName from the servers Snapshot
ReplayRestart ==
    /\ rpDown = "panic"
    /\ LET r == LoadServers(EmptyMap, Snapshot(rpServers).msgs)
       IN  /\ rpDown' = IF r.panic THEN "panic" ELSE Nil
           /\ rpByName' = r.byName
    /\ rpCOff' = 0
    /\ rpSOff' = 0
    /\ UNCHANGED <<rpClients, rpServers, rpGen, rpCHigh, outsideReplay>>

(***************************************************************************)
(* client: expectConn, runConn and updateClientCA of one vServer, one step  *)
(* per critical section of vServer.mu                                       *)
(***************************************************************************)
\* the goroutines that call expectConn, and the accepted connections
CaExpecters == {"e1", "e2"}
CaConns == {"q1", "q2"}
CaCalls == CaExpecters \cup CaConns
\* the expectConn calls of a behaviour
MaxExpects == 2

RLockNotHeld(mu, t) == mu

\* s.mu.RLock() of updateClientCA, held until the deferred RUnlock
CaRLock(mu, t) == RLock(mu, t)

cancelClientKept(chs, cls, key) == chs

\* expectConn: close(exp.ch) of the pending expectation of the key
cancelClient(chs, cls, key) ==
    IF key \in DOMAIN cls
    THEN [chs EXCEPT ![cls[key]].closes = @ + 1,
                       ![cls[key]].by = "expectConn"]
    ELSE chs

\* expectConn, under s.mu.Lock(): close the channel of a pending
\* expectation of the key, make a channel, put it into srv.clients
CaExpect(t, cert) ==
    /\ t \in CaExpecters
    /\ caPc[t] = "idle"
    /\ Len(caChans) < MaxExpects
    /\ CanLock(caMu)
    /\ LET key == NewKey(cert)
           cancelled == cancelClient(caChans, caClients, key)
       IN  /\ caChans' = Append(cancelled,
                            [key |-> key, closes |-> 0, by |-> Nil, got |-> <<>>, late |-> FALSE])
           /\ caClients' = MapSet(caClients, key, Len(caChans) + 1)
           /\ caKey' = [caKey EXCEPT ![t] = key]
    /\ caPc' = [caPc EXCEPT ![t] = "update"]
    /\ UNCHANGED <<caMu, caPool, caExp, caSnap, outsideCA>>

\* the listener accepts a connection whose certificate the pool verifies
CaAccept(q, cert) ==
    /\ q \in CaConns
    /\ caPc[q] = "idle"
    /\ NewKey(cert) \in caPool
    /\ caPc' = [caPc EXCEPT ![q] = "accepted"]
    /\ caKey' = [caKey EXCEPT ![q] = NewKey(cert)]
    /\ UNCHANGED <<caMu, caClients, caChans, caPool, caExp, caSnap, outsideCA>>

\* runConn: srv.dequeue(key) under s.mu.Lock(); without an expectation the
\* connection is closed and runConn returns
CaDequeue(q) ==
    /\ q \in CaConns
    /\ caPc[q] = "accepted"
    /\ CanLock(caMu)
    /\ LET r == dequeue(caClients, caKey[q])
       IN  /\ caClients' = r.clients
           /\ caExp' = [caExp EXCEPT ![q] = r.exp]
           /\ caPc' = [caPc EXCEPT ![q] = IF r.found THEN "send" ELSE "idle"]
           /\ caKey' = [caKey EXCEPT ![q] = IF r.found THEN @ ELSE NewKey(Zero)]
    /\ UNCHANGED <<caMu, caChans, caPool, caSnap, outsideCA>>

\* runConn: exp.ch <- conn, taken by the waiter, then close(exp.ch)
CaSend(q) ==
    /\ q \in CaConns
    /\ caPc[q] = "send"
    /\ caChans' = [caChans EXCEPT ![caExp[q]] =
                      [@ EXCEPT !.got = Append(@, q), !.late = (caChans[caExp[q]].closes > 0),
                                !.closes = @ + 1, !.by = "runConn"]]
    /\ caPc' = [caPc EXCEPT ![q] = "update"]
    /\ caExp' = [caExp EXCEPT ![q] = 0]
    /\ UNCHANGED <<caMu, caClients, caPool, caKey, caSnap, outsideCA>>

\* updateClientCA: s.mu.RLock() and the pool built from s.clients
CaUpdateRead(t) ==
    /\ caPc[t] = "update"
    /\ CanRLock(caMu)
    /\ caMu' = CaRLock(caMu, t)
    /\ caSnap' = [caSnap EXCEPT ![t] = updateClientCA(caClients)]
    /\ caPc' = [caPc EXCEPT ![t] = "store"]
    /\ UNCHANGED <<caClients, caChans, caPool, caKey, caExp, outsideCA>>

\* updateClientCA: s.clientCA.Store(clientCA) and the deferred RUnlock
CaUpdateStore(t) ==
    /\ caPc[t] = "store"
    /\ caPool' = caSnap[t]
    /\ caMu' = RUnlock(caMu, t)
    /\ caPc' = [caPc EXCEPT ![t] = "idle"]
    /\ caSnap' = [caSnap EXCEPT ![t] = {}]
    /\ caKey' = [caKey EXCEPT ![t] = NewKey(Zero)]
    /\ UNCHANGED <<caClients, caChans, caExp, outsideCA>>

(***************************************************************************)
(* Client.run and controlClient.run: the connections they dial and close   *)
(***************************************************************************)
\* why a runConnection returns: the connection is gone, a task failed on
\* its stream (an error response, an unexpected one) with the connection
\* alive, or the context was cancelled
EndCauses == {"conn", "stream", "canceled"}

\* runConnection's "defer conn.CloseWithError(0, "done")": the relay's has
\* it, the client's has none
CloseOnReturn(r, open, conn) == IF r = "relay" THEN open \ {conn} ELSE open

\* connect, called by run (first) or by reconnect after its backoff: the
\* dial fails, or it succeeds and the authentication is answered with an
\* error (connect returns without closing the connection), or both succeed
CnConnect(r, out) ==
    /\ cnPc[r] \in {"connect0", "connect"}
    /\ cnDials[r] < MaxDials
    /\ out \in {"ok", "fail", "rejected"}
    /\ cnDone[r] => out = "fail"
    /\ cnDials' = [cnDials EXCEPT ![r] = @ + 1]
    /\ cnOpen' = [cnOpen EXCEPT ![r] = IF out = "fail" THEN @ ELSE @ \cup {cnDials'[r]}]
    /\ \/ /\ out = "ok"
          /\ cnPc' = [cnPc EXCEPT ![r] = "session"]
          /\ cnConn' = [cnConn EXCEPT ![r] = cnDials'[r]]
       \/ /\ out = "fail" \/ (out = "rejected" /\ r = "client")
          /\ cnPc' = [cnPc EXCEPT ![r] = IF @ = "connect0" \/ cnDone[r] THEN "returned" ELSE @]
          /\ UNCHANGED cnConn
       \/ /\ out = "rejected" /\ r = "relay"
          /\ \E wrapped \in {Nil, "error"} :
                cnPc' = [cnPc EXCEPT ![r] =
                    IF wrapped = Nil THEN "panic"
                    ELSE IF @ = "connect0" THEN "returned" ELSE @]
          /\ UNCHANGED cnConn
    /\ UNCHANGED <<cnEnded, cnDone, outsideConns>>

\* runConnection returns; run returns a context.Canceled error and calls
\* reconnect after anything else
CnSessionEnd(r, cause) ==
    /\ cnPc[r] = "session"
    /\ cause \in EndCauses
    /\ cause = "conn" => cnConn[r] \notin cnOpen[r]
    /\ cause = "canceled" => cnDone[r]
    /\ cnOpen' = [cnOpen EXCEPT ![r] = CloseOnReturn(r, @, cnConn[r])]
    /\ cnEnded' = [cnEnded EXCEPT ![r] = @ \cup {cnConn[r]}]
    /\ cnPc' = [cnPc EXCEPT ![r] = IF cause = "canceled" THEN "returned" ELSE "connect"]
    /\ UNCHANGED <<cnConn, cnDials, cnDone, outsideConns>>

\* the peer closes a connection, or it times out
CnPeerClose(r, c) ==
    /\ c \in cnOpen[r]
    /\ cnOpen' = [cnOpen EXCEPT ![r] = @ \ {c}]
    /\ UNCHANGED <<cnPc, cnConn, cnEnded, cnDials, cnDone, outsideConns>>

\* the context of run is cancelled; a reconnect in its backoff returns
CnCancel(r) ==
    /\ ~cnDone[r]
    /\ cnPc[r] \notin {"returned", "panic"}
    /\ cnDone' = [cnDone EXCEPT ![r] = TRUE]
    /\ cnPc' = [cnPc EXCEPT ![r] = IF @ = "connect" THEN "returned" ELSE @]
    /\ UNCHANGED <<cnConn, cnOpen, cnEnded, cnDials, outsideConns>>

(***************************************************************************)
(* Reference definitions for the log claims                                *)
(***************************************************************************)
Prefix(l, n) == SubSeq(l, 1, n)

\* a later record of the same key exists
Superseded(l, i) == \E j \in (i + 1)..Len(l) : l[j].Key = l[i].Key

\* the records a compaction keeps: Puts that no later record of the key follows
Compacted(l) ==
    {SnapMessage(l[i]) : i \in {j \in 1..Len(l) : ~l[j].ValueEmpty /\ ~Superseded(l, j)}}

SeqRange(s) == {s[i] : i \in DOMAIN s}

\* the record at index i of l is in the returned list, at its own offset
InSnapshot(res, l, i) ==
    \E m \in SeqRange(res) :
        m.Offset = l[i].Offset /\ m.Key = l[i].Key /\ m.Value = l[i].Value

\* no record was appended while Snapshot ran
SnapQuiet == snapPc = "done" /\ snapEndLen = snapMax

GetExpected(k) ==
    IF last[k] = ErrNotFound
    THEN [v |-> Zero, err |-> ErrNotFound]
    ELSE [v |-> last[k], err |-> Nil]

\* C1: after any sequence of Put and Del, Get(k) returns the value of the
\* most recent Put on k when no Del follows it, and ErrNotFound when k was
\* never written or its latest record is a tombstone.
C1_GetLatest == \A k \in Keys : Get(log, k) = GetExpected(k)

\* a key whose latest record is a tombstone, and a key put twice with
\* different values
C1_Witness ==
    /\ \E k \in Keys : last[k] = ErrNotFound /\ GetByKey(log, k).err = Nil
    /\ \E k \in Keys :
        /\ last[k] \in Values
        /\ \E i \in 1..Len(log) :
            log[i].Key = k /\ ~log[i].ValueEmpty /\ log[i].Value # last[k]

C4_PointInTime ==
    snapPc = "done" =>
        /\ \A m \in SeqRange(snapRes) : m.Offset < snapNext
        /\ snapRes = SortedByOffset(Compacted(Prefix(log, snapNext)))

(***************************************************************************)
(* Claims about GetOrInit and Consume                                      *)
(***************************************************************************)
PutCount(l, k) == Cardinality({i \in 1..Len(l) : l[i].Key = k /\ ~l[i].ValueEmpty})

\* C2: GetOrInit is atomic: with concurrent calls for the same absent key,
\* init's result is Put at most once, and every caller returns the same
\* value, the one Get returns afterwards.
C2_GetOrInitAtomic ==
    /\ \A k \in ConfigKeys : PutCount(cfg, k) <= 1
    /\ \A p \in Callers :
        goiPc[p] = "done" => Get(cfg, goiKey[p]) = [v |-> goiRet[p], err |-> Nil]
    /\ \A p, q \in Callers :
        (goiPc[p] = "done" /\ goiPc[q] = "done" /\ goiKey[p] = goiKey[q])
            => goiRet[p] = goiRet[q]

\* the messages of the records of l from offset a to offset b - 1
Messages(l, a, b) == [i \in 1..(b - a) |-> ToMessage(l[a + i])]

Called(c) == cReq[c] # OffsetInvalid

\* C5: Consume(ctx, from) does not return until a record with offset >= from
\* exists; the batch holds consecutive records, tombstones flagged Delete, in
\* increasing offset order; the next offset is one past the last delivered
\* record, so chained calls see every record once with no gap; two consumers
\* reading the same offsets see the same records.
C5_ConsumeContract ==
    /\ \A c \in Consumers :
        Called(c) =>
            /\ \E i \in 1..cRetLen[c] : log[i].Offset >= cReq[c]
            /\ cBatch[c] # <<>>
            /\ \A i \in DOMAIN cBatch[c] :
                /\ cBatch[c][i] = ToMessage(log[cBatch[c][i].Offset + 1])
                /\ i > 1 => cBatch[c][i].Offset = cBatch[c][i - 1].Offset + 1
            /\ cOff[c] = cBatch[c][Len(cBatch[c])].Offset + 1
            /\ cSeen[c] = Messages(log, 0, cOff[c])
    /\ \A c, d \in Consumers :
        \A i \in DOMAIN cSeen[c], j \in DOMAIN cSeen[d] :
            cSeen[c][i].Offset = cSeen[d][j].Offset => cSeen[c][i] = cSeen[d][j]

\* the key-to-value map of a Snapshot result
SnapshotMap(res) ==
    [k \in {m.Key : m \in SeqRange(res.msgs)} |->
        (CHOOSE m \in SeqRange(res.msgs) : m.Key = k).Value]

Materialized(l, f) ==
    [hp \in {h \in HostPorts : Get(l, relayServerKey(f, h)).err = Nil} |->
        Get(l, relayServerKey(f, hp)).v]

\* C7: a reader whose getForward call observes forwardsOffset >= N observes
\* in the returned map the effect of every relay-servers record with offset
\* < N for that forward: the map a call returns is the map of the records
\* below the offset it returns, under any interleaving with run.
C7_WatermarkNotAhead ==
    /\ \A r \in Readers :
        gf[r] # NoResult =>
            gf[r].servers = Materialized(Prefix(relayServers, gf[r].offset), gf[r].fwd)
    /\ \A f \in Forwards :
        MapGet(forwardsCache, f) = Materialized(Prefix(relayServers, forwardsOffset), f)

\* a reader called getForward while run was in the middle of a batch, and
\* got a non-empty map of a forward with a Del record below the watermark
C7_Witness ==
    \E r \in Readers :
        /\ gf[r] # NoResult
        /\ gf[r].offset = forwardsOffset
        /\ runPc = "update"
        /\ runMsgs # <<>>
        /\ forwardsOffset > runOffset
        /\ gf[r].servers # EmptyMap
        /\ \E i \in 1..gf[r].offset :
            relayServers[i].ValueEmpty /\ relayServers[i].Key.Forward = gf[r].fwd

\* C8: every change of a ClientsResp written to the relay has a forward the
\* relay's authentication allows, whether the response is built from
\* Snapshot or from Consume.
C8_OnlyAllowedForwards ==
    \A i \in DOMAIN resp.Changes : resp.Changes[i].Forward \in relayAuth

\* a response built from Consume whose batch held a record of a forward the
\* relay is not allowed, and a record it is allowed
C8_Witness ==
    /\ resp # NoResp
    /\ respReq >= 0
    /\ resp.Changes # <<>>
    /\ \E i \in (respReq + 1)..resp.Offset : relayClients[i].Key.Forward \notin relayAuth

Live(l, key) == Get(l, key).err = Nil

\* C9: relay-clients holds a live record for (forward, role, key) iff at
\* least one relayServer.Client call for that triple is running.
C9_LiveIffRunning ==
    \A c \in Registered :
        Live(relayClients, relayClientKey(c[1], c[2], c[3]))
            <=> \E s \in Sessions : sess[s] = relayClientKey(c[1], c[2], c[3])

\* C10: for any (forward, certificate key) at most one role has a live
\* record in relay-clients.
C10_RoleExclusion ==
    \A f \in Forwards, cert \in Certs :
        Cardinality({role \in Roles : Live(relayClients, relayClientKey(f, role, cert))}) <= 1

(***************************************************************************)
(* Claims about the servers stream                                         *)
(***************************************************************************)
\* C11: after relayServerOffsets.Put(hp, O) has returned, whatever crash,
\* restart or reconnect follows, the next ServersReq sent to relay hp
\* carries O; a relay with no stored offset is asked from OffsetOldest.
C11_RequestCarriesStoredOffset ==
    rsPc # "read" => rsReq = rsAcked

C11_Witness ==
    /\ rsPc = "sent"
    /\ rsFaults > 0
    /\ rsAcked > 0
    /\ rsReq = rsAcked

\* the last records of l are the changes, in order
BatchAppended(l, changes) ==
    /\ Len(l) >= Len(changes)
    /\ \A i \in DOMAIN changes :
        LET rec == l[Len(l) - Len(changes) + i]
        IN  /\ rec.Key = relayServerKey(changes[i].Server, RelayHP)
            /\ rec.ValueEmpty = (changes[i].Change = "ChangeDel")
            /\ ~rec.ValueEmpty => rec.Value = changes[i].ServerCertificate

\* C12: whenever runRelayServers stores an offset, it is the offset of the
\* batch in hand, every change of that batch has been appended to
\* relay-servers, and no change of the batch is one whose application
\* returns an error.
C12_OffsetAfterBatch ==
    [][relayServerOffsets' # relayServerOffsets =>
        /\ rsPc = "apply"
        /\ BatchAppended(relayServers, rsResp.Changes)
        /\ \A i \in DOMAIN rsResp.Changes : ChangeApplies(rsResp.Changes[i])
        /\ relayServerOffsets' = Put(relayServerOffsets, RelayHP, rsResp.Offset)]_vars

C12_Witness ==
    /\ rsPc = "read"
    /\ rsFaults > 0
    /\ rsAcked >= 2
    /\ rsSince = 0
    /\ Len(relayServers) >= 3

\* C13: no crash happens at a point where records of a batch are in
\* relay-servers while relay-server-offsets still holds the offset before
\* that batch.
C13_BatchAtomic ==
    [][RsCrash => rsSince = 0]_vars

\* C14: once the control server has stored the offset of the relay's last
\* record, what relay-servers holds for the relay is what the relay's
\* changes give when each is applied once, in order.
C14_ExactlyOnce ==
    (rsPc = "read" /\ rsAcked = Len(servers)) =>
        \A f \in Forwards :
            Get(relayServers, relayServerKey(f, RelayHP)) = Get(servers, f)

(***************************************************************************)
(* Claims about the clients stream                                         *)
(***************************************************************************)
\* C16: when the relay has handled a ClientsResp, it has stored the
\* response's offset, and its clients log has a live record for a
\* (forward, role, key) exactly if the forward is allowed to the relay and
\* relay-clients has a live record for it below that offset.
C16_RelayMirrorsClients ==
    [][RelayApplyClients =>
        /\ relayOffset' = resp.Offset
        /\ \A c \in Registered :
            Live(clients', clientKey(c[1], c[2], c[3])) <=>
                /\ c[1] \in relayAuth
                /\ Live(Prefix(relayClients, resp.Offset),
                        relayClientKey(c[1], c[2], c[3]))]_vars

\* the request cannot be served without a gap: it asked for a numbered
\* offset below the log's next offset and no message came back
GapUnserved ==
    /\ gapPc = "resp"
    /\ gapReq >= 0
    /\ gapReq < gapResp.Offset
    /\ gapMsgs = <<>>

C18_StableServerId ==
    /\ PutCount(cfg, "server-id") <= 1
    /\ srvId # Zero => Get(cfg, "server-id") = [v |-> srvId, err |-> Nil]
    /\ \A id \in idReported : cfg # <<>> /\ id = cfg[1].Value
    /\ \A hp \in HostPorts : relayStateId[hp] # Zero => relayStateId[hp] = cfg[1].Value

\* a restarted server has reported its id to a relay that already held it
C18_Witness ==
    /\ srvId # Zero
    /\ idStops >= 2
    /\ goiNv[Starter] = Zero
    /\ idReported = {srvId}
    /\ \A hp \in HostPorts : relayStateId[hp] = srvId

(***************************************************************************)
(* Claims about the relay's ClientCAs pool                                 *)
(***************************************************************************)
\* C19: once upsert has been called with a servers record, the relayServer
\* of that name exists and its pool and its clients map hold exactly the
\* clients of the record; and a pool loaded by a handshake is the client
\* set of one record of the servers log.
C19_PoolMatchesRecord ==
    /\ poolLast # NoRecord =>
        /\ poolLast.Name \in DOMAIN serverByName
        /\ serverByName[poolLast.Name].cas = CertsOf(poolLast.Clients)
        /\ DOMAIN serverByName[poolLast.Name].clients.m = poolLast.Clients
    /\ hsPool # NoPool =>
        \E i \in DOMAIN srvLog : hsPool = CertsOf(srvLog[i].Value.Clients)

(***************************************************************************)
(* Claims about DirectServer                                               *)
(***************************************************************************)
\* the channels connection q has been received from
GotOn(q) == {ch \in DOMAIN chans : \E i \in DOMAIN chans[ch].got : chans[ch].got[i] = q}

\* C20: a connection that found no expectation for its key is closed with
\* code 2 and is received from no channel; a connection that found one is
\* received only from that expectation's channel, which is a channel of its
\* own key, no longer in srv.clients, and delivers one connection at most.
C20_OneShotRendezvous ==
    /\ \A q \in DirectConns :
        /\ dconn[q].pc = "closed" =>
            /\ ~dconn[q].found
            /\ dconn[q].code = <<CloseClientNotFound>>
            /\ GotOn(q) = {}
        /\ dconn[q].pc \in {"new", "accepted", "send"} => GotOn(q) = {}
        /\ dconn[q].pc \in {"send", "done"} =>
            /\ dconn[q].found
            /\ dconn[q].code = <<>>
            /\ chans[dconn[q].exp].key = dconn[q].key
            /\ \A key \in DOMAIN vClients : vClients[key] # dconn[q].exp
        /\ dconn[q].pc = "done" => GotOn(q) = {dconn[q].exp}
    /\ \A ch \in DOMAIN chans : Len(chans[ch].got) <= 1
    /\ \A q1 \in DirectConns, q2 \in DirectConns :
        (q1 # q2 /\ dconn[q1].pc \in {"send", "done"} /\ dconn[q2].pc \in {"send", "done"})
            => dconn[q1].exp # dconn[q2].exp

\* one connection was delivered, a second one with the same certificate
\* was closed, and after a new expectConn a third one was delivered
C20_Witness ==
    \E q1 \in DirectConns, q2 \in DirectConns, q3 \in DirectConns :
        /\ dconn[q1].pc = "done"
        /\ dconn[q2].pc = "closed"
        /\ dconn[q3].pc = "done"
        /\ q1 # q3
        /\ dconn[q1].key = dconn[q2].key
        /\ dconn[q1].key = dconn[q3].key

(***************************************************************************)
(* Claims about the mutexes                                                *)
(***************************************************************************)
\* C21: a task blocked in Consume holds no part of forwardsMu and a
\* runConn blocked in the send on the expectation's channel holds no part
\* of vServer.mu, so while they wait the mutex can be taken by getForward,
\* and by expectConn and dequeue.
C21_NoLockAcrossSuspension ==
    /\ lkPc["run"] = "consume" => ~Holds(forwardsMu, "run")
    /\ \A q \in LockConns : lkPc[q] = "send" => ~Holds(vMu, q)
    /\ (lkPc["run"] = "consume" /\ lkAvail = 0 /\ lkPc["rd1"] = "idle")
        => CanRLock(forwardsMu)
    /\ (\A t \in {"expect"} \cup LockConns : lkPc[t] \in {"idle", "send"})
        => CanLock(vMu)

\* run waits in Consume on an empty log while a connection waits in the
\* send for a waiter that is not receiving
C21_Witness ==
    /\ lkPc["run"] = "consume"
    /\ lkAvail = 0
    /\ ~lkWaiter
    /\ \E q \in LockConns : lkPc[q] = "send"
    /\ lkPc["expect"] = "idle"

(***************************************************************************)
(* Claims about Client.run and controlClient.run                           *)
(***************************************************************************)
\* the delay after n failed attempts of one reconnect
RECURSIVE BackoffAfter(_)
BackoffAfter(n) == IF n = 0 THEN MinBackoff ELSE NextBackoff(BackoffAfter(n - 1))

\* C22: inside reconnect the client's delay is MinBackoff after a session's
\* end and NextBackoff of the previous delay after each failed attempt, a
\* dial is made only after the timer of that delay has fired, and every
\* dial presents the reconnect token of the latest successful
\* authentication (none before the first).
C22_BackoffAndToken ==
    /\ clPc["client"] \in {"select", "parked", "connect"}
        => clDelay["client"] = BackoffAfter(clFails["client"])
    /\ clPc["client"] = "connect" => clFired["client"]
    /\ clSent["client"][1] = clSent["client"][2]
    /\ clPc["client"] \in {"connect0", "session", "select", "parked", "connect"}
        => clRetoken["client"] = clGranted["client"]

\* the client authenticated, failed two attempts of its reconnect and
\* authenticated again, presenting the first token
C22_Witness ==
    /\ clPc["client"] = "session"
    /\ clDials["client"] = 4
    /\ clGranted["client"] = 4
    /\ clSent["client"] = <<1, 1>>

\* C23: run returns only with a context-cancellation error.
C23_ReturnsOnlyCancelled ==
    \A r \in Runners : clPc[r] = "returned" => clErr[r] = "canceled"

\* C24: once the context is cancelled under a reconnect that waits on its
\* timer, reconnect has returned the context's error and no dial follows.
C24_CancelPreemptsBackoff ==
    \A r \in Runners :
        clCut[r] >= 0 =>
            /\ clPc[r] = "returned"
            /\ clErr[r] = "canceled"
            /\ clDials[r] = clCut[r]

\* both runners were cancelled while parked in reconnect
C24_Witness ==
    \A r \in Runners : clCut[r] >= 1

(***************************************************************************)
(* Claims about Source.RunControl                                          *)
(***************************************************************************)
\* C25: once RunControl's context is cancelled or one of its tasks has
\* failed, the read side of the stream is cancelled, every task stops and
\* RunControl returns, even if no further peers response ever arrives.
C25_RunControlReturns ==
    /\ (scPc = "running" /\ scCtx) ~> (scPc = "returned" /\ scCancelRead)
    /\ [](scPc = "returned" /\ scSup = "done" => scCancelRead /\ scWr = "done" /\ scRd = "done")

\* RunControl returned after the context was cancelled under a reader that
\* had read nothing
C25_Witness ==
    /\ scPc = "returned"
    /\ scOuter
    /\ scSup = "done"
    /\ scReads = 0

(***************************************************************************)
(* Claims about the data path                                              *)
(***************************************************************************)
\* C26: the stream of an inbound TCP connection is opened on the first
\* active connection whose OpenStreamSync succeeds; when there is none the
\* handling ends with "could not find route", the TCP connection is closed
\* and no Connect request is written.
C26_FirstActiveOrNoRoute ==
    tcPc # "idle" =>
        IF \A i \in 1..Len(tcActive) : ~tcActive[i]
        THEN /\ tcStream = 0
             /\ tcPc = "closed"
             /\ tcErr = "could not find route"
             /\ ~tcWrote
             /\ ~tcJoined
        ELSE /\ tcStream \in 1..Len(tcActive)
             /\ tcActive[tcStream]
             /\ \A j \in 1..(tcStream - 1) : ~tcActive[j]
             /\ tcErr # "could not find route"

\* the open failed on the first connection and the second one is used
C26_Witness ==
    /\ tcActive = <<FALSE, TRUE>>
    /\ tcStream = 2
    /\ tcWrote

\* C27: bytes are spliced only after the Connect request was written and
\* a response without error was read; a failed write, a failed read or an
\* error response ends the connection without a splice.
C27_SpliceAfterPositiveResponse ==
    /\ tcJoined => (tcWrote /\ tcResp = "ok")
    /\ tcErr # Nil => (~tcJoined /\ tcPc = "closed")
    /\ tcResp \in {"error", "unreadable"} => ~tcJoined

\* a connection was spliced after a positive response
C27_Witness ==
    /\ tcPc = "join"
    /\ tcJoined
    /\ tcResp = "ok"

\* C29: a handled stream gets exactly one Response, written before any
\* splice: DestinationNotFound without a dial for an unknown name,
\* DestinationDialFailed after a failed dial, RequestUnknown for a request
\* that is no Connect, and an error-free one only after a dial.
C29_ExactlyOneResponse ==
    /\ ddPc \in {"join", "closed"} => Len(ddResps) = 1
    /\ ddJoined => (ddResps = <<"ok">> /\ ddDialed)
    /\ \A i \in 1..Len(ddResps) :
        /\ ddResps[i] = "DestinationNotFound" => (ddReq = "connect-absent" /\ ~ddDialed)
        /\ ddResps[i] = "DestinationDialFailed" => (ddReq = "connect" /\ ddDialed)
        /\ ddResps[i] = "RequestUnknown" => ddReq = "other"
        /\ ddResps[i] = "ok" => (ddReq = "connect" /\ ddDialed)

(***************************************************************************)
(* Claims about route options                                              *)
(***************************************************************************)
\* C28: a source whose option does not allow direct never has a direct
\* route in its self descriptor, and one whose option does not allow relay
\* never opens the relay stream and never has relays, however many times
\* the client connected.
C28_RouteOptionGates ==
    \A o \in RouteOptions :
        /\ ~Allows(o, "direct") => rtDirect[o] = Nil
        /\ ~Allows(o, "relay") => (rtRelays[o] = {} /\ ~rtOpen[o] /\ rtOpened[o] = 0)

\* after two connections the relay-only source has relays and no direct
\* route, and the direct-only source a direct route and no relays
C28_Witness ==
    /\ rtCalls["relay"] = 2
    /\ rtRelays["relay"] # {}
    /\ rtCalls["direct"] = 2
    /\ rtDirect["direct"] # Nil
    /\ rtDirect["any"] # Nil
    /\ rtRelays["any"] # {}

(***************************************************************************)
(* Claims about the control server's listener                              *)
(***************************************************************************)
\* C30: a step in which the connection of one relay is closed leaves the
\* accept loop as it was, and leaves the connection and the stored offset
\* of every other relay as they were.
C30_ErrorClosesOnlyThatConn ==
    [][\A hp \in HostPorts :
        (rlPc[hp] # "closed" /\ rlPc'[hp] = "closed") =>
            /\ lsPc' = lsPc
            /\ lsCtx' = lsCtx
            /\ \A o \in HostPorts \ {hp} :
                /\ rlPc'[o] = rlPc[o]
                /\ rlOffset'[o] = rlOffset[o]
                /\ rlClose'[o] = rlClose[o]]_vars

\* after three accepts one relay's connection is closed by an error while
\* the other runs with a stored offset and the listener accepts
C30_Witness ==
    /\ lsPc = "accept"
    /\ lsAccepts = 3
    /\ rlClose["h1"] = <<CloseDone>>
    /\ rlPc["h2"] = "running"
    /\ rlOffset["h2"] > 0

(***************************************************************************)
(* Claims about the forwards cache and relayServer.listen                  *)
(***************************************************************************)
\* C31: the cache holds, for every forward, the map of the relay-servers
\* records below forwardsOffset and no entry for a forward without a live
\* record, whatever the callers of getForward do to the maps they got.
C31_CacheMaterialized ==
    /\ \A f \in Forwards :
        MapGet(forwardsCache, f) = Materialized(Prefix(relayServers, forwardsOffset), f)
    /\ \A f \in DOMAIN forwardsCache : DOMAIN forwardsCache[f] # {}

\* a listener that started from a non-empty map of the cache has changed
\* its map ahead of the cache, while run is in the middle of a batch
C31_Witness ==
    \E r \in Readers :
        /\ ln[r].pc = "consume"
        /\ ln[r].fwd \in DOMAIN forwardsCache
        /\ ln[r].servers # forwardsCache[ln[r].fwd]
        /\ ln[r].servers # EmptyMap
        /\ ln[r].offset > forwardsOffset
        /\ forwardsOffset > 0
        /\ runPc = "update"
        /\ runMsgs # <<>>

\* C40: listen notifies first iff the cached map of fwd is not empty, then
\* once per consumed batch that holds a record of fwd and not for any
\* other batch, each time with the map of all records of fwd below its
\* offset: none is missed, none applied twice.
C40_ListenNotifies ==
    /\ [](\A r \in Readers :
            ln[r].pc = "consume" =>
                ln[r].servers = Materialized(Prefix(relayServers, ln[r].offset), ln[r].fwd))
    /\ [][\A r \in Readers :
            /\ (ln[r].pc = "idle" /\ ln'[r].pc = "consume")
                => (ln'[r].notified <=> DOMAIN ln'[r].servers # {})
            /\ (ln[r].pc = "consume" /\ ln'[r].pc = "consume" /\ ln'[r] # ln[r])
                => (ln'[r].notified <=>
                        \E i \in (ln[r].offset + 1)..ln'[r].offset :
                            relayServers[i].Key.Forward = ln[r].fwd)]_vars

\* a batch of another forward's records went by without a notification,
\* after a Del of the listener's forward had emptied its map
C40_Witness ==
    \E r \in Readers :
        /\ ln[r].pc = "consume"
        /\ ~ln[r].notified
        /\ ln[r].servers = EmptyMap
        /\ ln[r].offset >= 2
        /\ relayServers[ln[r].offset].Key.Forward # ln[r].fwd
        /\ \E i \in 1..ln[r].offset :
            relayServers[i].Key.Forward = ln[r].fwd /\ relayServers[i].ValueEmpty

(***************************************************************************)
(* Claims about the offsets of the clients stream                          *)
(***************************************************************************)
\* the changes the records of l from offset a to offset b - 1 give
RangeChanges(auth, l, a, b) == ClientsChanges(auth, Messages(l, a, b))

\* C32: a request with OffsetOldest is answered with Put changes only, any
\* other with the filtered records from the asked offset up to the
\* response's offset, which is above the asked one; every record a response
\* was built from is below the response's offset, so the next request reads
\* none of them again; the offset the relay stores never decreases.
C32_StreamOffsets ==
    /\ [](rcPc = "resp" =>
            /\ respReq = OffsetOldest =>
                \A i \in DOMAIN resp.Changes : resp.Changes[i].Change = "ChangePut"
            /\ respReq # OffsetOldest =>
                /\ resp.Offset > respReq
                /\ resp.Changes = RangeChanges(relayAuth, relayClients, respReq, resp.Offset)
            /\ resp.Offset >= respReq
            /\ \A o \in stMsgs : o >= respReq /\ o < resp.Offset)
    /\ [][relayOffset' >= relayOffset]_vars

(***************************************************************************)
(* Claims about the relay's state per control server                       *)
(***************************************************************************)
\* C33: a connection to the control server whose id the state has leaves
\* the state, its logs and its stored offset as they are; for another id the
\* logs of the previous state are closed when the state of the new id is
\* current, and the offset a request carries to a control server is the
\* one that control server gave the relay last, never another server's.
C33_StatePerControlServer ==
    /\ [](/\ swOpen \subseteq {swState}
          /\ swPc = "running" => (swUsed = swServerID /\ swState = swServerID)
          /\ \A id \in ControlIds : swDisk[id] = swGiven[id])
    /\ [][/\ (swPc = "connected" /\ swState = swServerID)
                => (swState' = swState /\ swOpen' = swOpen /\ swDisk' = swDisk
                    /\ swPc' = "running")
          /\ swReq' # swReq => swReq'[2] = swGiven[swReq'[1]]]_vars

\* the relay went from one control server to another and back, and sent
\* the first one the offset it had stored for it
C33_Witness ==
    /\ swPc = "running"
    /\ swReq = <<"idA", 1>>
    /\ swGiven = [id \in ControlIds |-> 2]
    /\ swOpen = {"idA"}

(***************************************************************************)
(* Claims about the error groups of a relay session                        *)
(***************************************************************************)
GroupDone(side) ==
    /\ \A t \in TasksOf(side) : gPc[t] = "done"
    /\ gRet[side]
    /\ gConn = "closed"

\* C34: once a task of a relay session has returned an error, on either
\* side, every task of that side returns, runErr or runConnection returns
\* and the connection is closed: no task stays in pb.Read or in Consume.
C34_SiblingsReturn ==
    /\ \A side \in Sides :
        (\E t \in TasksOf(side) : gPc[t] = "done") ~> GroupDone(side)
    /\ [](\A side \in Sides : gRet[side] => \A t \in TasksOf(side) : gPc[t] = "done")

\* runRelayClients failed while runRelayServers waited in pb.Read for a
\* response the relay had not written, and both sides have returned
C34_Witness ==
    /\ gFirst["control"] = "runRelayClients"
    /\ gFirst["relay"] = "runClientsStream"
    /\ GroupDone("control")
    /\ GroupDone("relay")
    /\ gMsg["ServersResp"] = 0
    /\ ~gData["runServersStream"]

(***************************************************************************)
(* Claims about the relay's derived logs                                   *)
(***************************************************************************)
\* the latest record of the key is a tombstone
Tombstoned(l, k) == GetByKey(l, k).err = Nil /\ GetByKey(l, k).msg.ValueEmpty

\* the offset of the latest record of the key
LatestOffset(l, k) == GetByKey(l, k).msg.Offset

\* the names the servers log has given forward f
NamesOf(f) ==
    {rpServers[i].Value.Name :
        i \in {j \in 1..Len(rpServers) :
                 rpServers[j].Key = serverKey(f) /\ ~rpServers[j].ValueEmpty}}

\* C35: a client whose latest clients-log record is a tombstone that
\* runClientsLog has handled is not in the Clients set of its forward's
\* servers record and not in a pool of the forward, in any state, also
\* while runClientsLog reads the log again from the oldest offset.
C35_RemovedClientStaysOut ==
    \A c \in Registered :
        (/\ Tombstoned(rpClients, clientKey(c[1], c[2], c[3]))
         /\ LatestOffset(rpClients, clientKey(c[1], c[2], c[3])) < rpCHigh)
            => /\ Get(rpServers, serverKey(c[1])).err = Nil
                    => <<c[2], c[3]>> \notin Get(rpServers, serverKey(c[1])).v.Clients
               /\ \A name \in NamesOf(c[1]) \cap DOMAIN rpByName :
                    <<c[2], c[3]>> \notin DOMAIN rpByName[name].clients.m

\* C36: once the servers log has a tombstone of a forward, runServersLog
\* gets past it and serverByName has no entry under a name of the forward,
\* unless the forward got a record again.
C36_TombstoneRemovesServer ==
    \A o \in 1..MaxDerived, f \in Forwards :
        (Len(rpServers) >= o /\ rpServers[o].ValueEmpty /\ rpServers[o].Key = serverKey(f))
            ~> \/ rpDown = Nil /\ rpSOff >= o /\ NamesOf(f) \cap DOMAIN rpByName = {}
               \/ \E i \in (o + 1)..Len(rpServers) :
                    rpServers[i].Key = serverKey(f) /\ ~rpServers[i].ValueEmpty

(***************************************************************************)
(* Claims about the expectation channels and the clientCA pool             *)
(***************************************************************************)
\* the channel is in srv.clients, or a runConn holds it for its send
CaPending(ch) ==
    \/ \E key \in DOMAIN caClients : caClients[key] = ch
    \/ \E q \in CaConns : caPc[q] = "send" /\ caExp[q] = ch

\* C37: no channel is closed twice or sent on after its close; a channel
\* that is neither in srv.clients nor held for a send is closed; a channel
\* expectConn closed has delivered nothing, one runConn closed has
\* delivered its one connection.
C37_ChannelClosedOnce ==
    \A ch \in DOMAIN caChans :
        /\ caChans[ch].closes <= 1
        /\ ~caChans[ch].late
        /\ ~CaPending(ch) => caChans[ch].closes = 1
        /\ CaPending(ch) => caChans[ch].closes = 0
        /\ caChans[ch].by = "expectConn" => caChans[ch].got = <<>>
        /\ caChans[ch].by = "runConn" => Len(caChans[ch].got) = 1

\* an expectation was replaced and its channel closed by expectConn, the
\* replacing one got its connection and was closed by runConn, and a second
\* connection of the key found nothing to dequeue
C37_Witness ==
    \E a \in DOMAIN caChans, b \in DOMAIN caChans :
        /\ caChans[a].by = "expectConn"
        /\ caChans[b].by = "runConn"
        /\ caChans[a].key = caChans[b].key
        /\ caChans[b].got = <<"q1">>
        /\ caPc["q2"] = "idle"
        /\ caPc["q1"] = "update"
        /\ caClients = EmptyMap

\* no expectConn and no runConn call is in progress
CaQuiet == \A t \in CaCalls : caPc[t] = "idle"

\* C38: with no call in progress the pool holds exactly the keys of
\* srv.clients; and every pool stored is the pool of srv.clients as it is at
\* the store, so no older one replaces a newer one.
C38_PoolIsPending ==
    /\ [](CaQuiet => caPool = DOMAIN caClients)
    /\ [][\A t \in CaCalls :
            (caPc[t] = "store" /\ caPc'[t] = "idle") => caPool' = DOMAIN caClients']_vars

\* after two calls updated the pool at once, a delivered certificate is
\* out of the pool while another is expected
C38_Witness ==
    /\ CaQuiet
    /\ caPool = {NewKey("cert2")}
    /\ \E ch \in DOMAIN caChans :
        caChans[ch].key = NewKey("cert1") /\ caChans[ch].by = "runConn"
    /\ DOMAIN caClients = {NewKey("cert2")}

(***************************************************************************)
(* Claims about the control connections of a run                           *)
(***************************************************************************)
\* C39: while a session runs on the connection run holds, every connection
\* of an earlier session of that run is closed, and so at most one
\* connection that carried a session is open.
C39_OneOpenConnection ==
    \A r \in Runners :
        cnPc[r] = "session" =>
            /\ cnEnded[r] \cap cnOpen[r] = {}
            /\ Cardinality(cnOpen[r] \cap (cnEnded[r] \cup {cnConn[r]})) <= 1

(***************************************************************************)
(* Claims about authentication                                             *)
(***************************************************************************)
\* C15: a connection whose token was rejected on its first stream is closed
\* with application error code AuthenticationFailed (100) and has served no
\* further stream.
C15_RejectedClosed ==
    \A c \in Conns :
        aRejected[c] =>
            /\ aPc[c] = "closed"
            /\ aClose[c] = <<Error_AuthenticationFailed>>
            /\ aServed[c] = 0

Init ==
    /\ log = <<>>
    /\ last = [k \in Keys |-> ErrNotFound]
    /\ snapPc = "idle"
    /\ snapMax = 0
    /\ snapOff = OffsetOldest
    /\ snapSum = EmptyMap
    /\ snapRes = <<>>
    /\ snapNext = OffsetInvalid
    /\ snapEndLen = 0
    /\ cOff = [c \in Consumers |-> OffsetInvalid]
    /\ cReq = [c \in Consumers |-> OffsetInvalid]
    /\ cBatch = [c \in Consumers |-> <<>>]
    /\ cRetLen = [c \in Consumers |-> 0]
    /\ cSeen = [c \in Consumers |-> <<>>]
    /\ cMap = [c \in Consumers |-> EmptyMap]
    /\ cfg = <<>>
    /\ goiPc = [p \in Callers |-> "idle"]
    /\ goiKey = [p \in Callers |-> Zero]
    /\ goiNv = [p \in Callers |-> Zero]
    /\ goiRet = [p \in Callers |-> Zero]
    /\ relayServers = <<>>
    /\ forwardsCache = EmptyMap
    /\ forwardsOffset = 0
    /\ runPc = "read"
    /\ runOffset = OffsetInvalid
    /\ runMsgs = <<>>
    /\ runNext = OffsetInvalid
    /\ gf = [r \in Readers |-> NoResult]
    /\ relayClients = <<>>
    /\ sess = [s \in Sessions |-> NoSession]
    /\ relayAuth = NoAuth
    /\ connected = FALSE
    /\ relayOffset = OffsetOldest
    /\ resp = NoResp
    /\ respReq = OffsetInvalid
    /\ rcPc = "idle"
    /\ clients = <<>>
    /\ servers = <<>>
    /\ relayServerOffsets = <<>>
    /\ rsPc = "read"
    /\ rsReq = OffsetInvalid
    /\ rsSnapMax = OffsetInvalid
    /\ rsResp = NoServersResp
    /\ rsIdx = 0
    /\ rsAcked = OffsetOldest
    /\ rsSince = 0
    /\ rsFaults = 0
    /\ aPc = [c \in Conns |-> "new"]
    /\ aToken = [c \in Conns |-> Zero]
    /\ aRejected = [c \in Conns |-> FALSE]
    /\ aClose = [c \in Conns |-> <<>>]
    /\ aServed = [c \in Conns |-> 0]
    /\ gapLog = <<>>
    /\ gapBase = 0
    /\ gapOffset = OffsetOldest
    /\ gapPc = "idle"
    /\ gapReq = OffsetInvalid
    /\ gapMsgs = <<>>
    /\ gapResp = NoClientsResp
    /\ srvId = Zero
    /\ idReported = {}
    /\ relayStateId = [hp \in HostPorts |-> Zero]
    /\ idStops = 0
    /\ srvLog = <<>>
    /\ serverByName = EmptyMap
    /\ poolOffset = 0
    /\ poolPanic = FALSE
    /\ poolLast = NoRecord
    /\ hsPool = NoPool
    /\ vClients = EmptyMap
    /\ clientCA = {}
    /\ chans = <<>>
    /\ dconn = [q \in DirectConns |-> NoConn]
    /\ forwardsMu = FreeMutex
    /\ vMu = FreeMutex
    /\ lkPc = [t \in LockTasks |-> "idle"]
    /\ lkAvail = 0
    /\ lkBatch = 0
    /\ lkExp = FALSE
    /\ lkWaiter = FALSE
    /\ clPc = [r \in Runners |-> "connect0"]
    /\ clDone = [r \in Runners |-> FALSE]
    /\ clErr = [r \in Runners |-> Nil]
    /\ clDials = [r \in Runners |-> 0]
    /\ clRetoken = [r \in Runners |-> 0]
    /\ clGranted = [r \in Runners |-> 0]
    /\ clSent = [r \in Runners |-> <<0, 0>>]
    /\ clDelay = [r \in Runners |-> 0]
    /\ clFired = [r \in Runners |-> FALSE]
    /\ clFails = [r \in Runners |-> 0]
    /\ clCut = [r \in Runners |-> -1]
    /\ scPc = "open"
    /\ scOuter = FALSE
    /\ scCtx = FALSE
    /\ scSup = "wait"
    /\ scWr = "listen"
    /\ scRd = "read"
    /\ scCancelRead = FALSE
    /\ scWrites = 0
    /\ scReads = 0
    /\ tcPc = "idle"
    /\ tcActive = <<>>
    /\ tcStream = 0
    /\ tcWrote = FALSE
    /\ tcResp = Nil
    /\ tcJoined = FALSE
    /\ tcErr = Nil
    /\ ddPc = "idle"
    /\ ddReq = Nil
    /\ ddResps = <<>>
    /\ ddDialed = FALSE
    /\ ddJoined = FALSE
    /\ rtDirect = [o \in RouteOptions |-> Nil]
    /\ rtRelays = [o \in RouteOptions |-> {}]
    /\ rtOpen = [o \in RouteOptions |-> FALSE]
    /\ rtCalls = [o \in RouteOptions |-> 0]
    /\ rtOpened = [o \in RouteOptions |-> 0]
    /\ lsPc = "accept"
    /\ lsCtx = FALSE
    /\ lsAccepts = 0
    /\ rlPc = [hp \in HostPorts |-> "none"]
    /\ rlOffset = [hp \in HostPorts |-> 0]
    /\ rlClose = [hp \in HostPorts |-> <<>>]
    /\ ln = [r \in Readers |-> NoListen]
    /\ stMax = 0
    /\ stOff = OffsetOldest
    /\ stSum = EmptyMap
    /\ stMsgs = {}
    /\ swState = Nil
    /\ swOpen = {}
    /\ swDisk = [id \in ControlIds |-> OffsetOldest]
    /\ swGiven = [id \in ControlIds |-> OffsetOldest]
    /\ swPc = "idle"
    /\ swServerID = Zero
    /\ swUsed = Nil
    /\ swReq = <<>>
    /\ gPc = [t \in GroupTasks |->
                IF t \in Requesting THEN "run" ELSE IF t \in Serving THEN "read" ELSE "consume"]
    /\ gCtx = [s \in Sides |-> FALSE]
    /\ gRet = [s \in Sides |-> FALSE]
    /\ gConn = "open"
    /\ gMsg = [d \in Dirs |-> 0]
    /\ gFin = [d \in Dirs |-> FALSE]
    /\ gStop = [d \in Dirs |-> FALSE]
    /\ gData = [t \in Serving |-> FALSE]
    /\ gFirst = [s \in Sides |-> Nil]
    /\ rpClients = <<>>
    /\ rpServers = <<>>
    /\ rpGen = 0
    /\ rpCOff = 0
    /\ rpCHigh = 0
    /\ rpSOff = 0
    /\ rpByName = EmptyMap
    /\ rpDown = Nil
    /\ caMu = FreeMutex
    /\ caClients = EmptyMap
    /\ caChans = <<>>
    /\ caPool = {}
    /\ caPc = [t \in CaCalls |-> "idle"]
    /\ caKey = [t \in CaCalls |-> NewKey(Zero)]
    /\ caExp = [t \in CaConns |-> 0]
    /\ caSnap = [t \in CaCalls |-> {}]
    /\ cnPc = [r \in Runners |-> "connect0"]
    /\ cnConn = [r \in Runners |-> 0]
    /\ cnOpen = [r \in Runners |-> {}]
    /\ cnEnded = [r \in Runners |-> {}]
    /\ cnDials = [r \in Runners |-> 0]
    /\ cnDone = [r \in Runners |-> FALSE]

Next ==
    \/ \E k \in Keys, v \in Values : DoPut(k, v)
    \/ \E k \in Keys : DoDel(k)
    \/ SnapStart
    \/ SnapConsume
    \/ SnapReturn
    \/ SnapReset

Spec == Init /\ [][Next]_vars

NextConsume ==
    \/ \E k \in Keys, v \in Values : DoPut(k, v)
    \/ \E k \in Keys : DoDel(k)
    \/ \E c \in Consumers, from \in {OffsetOldest} \cup 0..MaxLog : ConsumeCall(c, from)

SpecConsume == Init /\ [][NextConsume]_vars

NextInit ==
    \/ \E p \in Callers, k \in ConfigKeys : GoiGet(p, k)
    \/ \E p \in Callers, v \in Values : GoiInit(p, v)
    \/ \E p \in Callers : GoiPut(p)
    \/ \E p \in Callers : GoiDone(p)

SpecInit == Init /\ [][NextInit]_vars

NextFwd ==
    \/ \E p \in Published : RelayServersPut(p[1], p[2], p[3])
    \/ \E p \in Published : RelayServersDel(p[1], p[2])
    \/ CtlStart
    \/ RunReadOffset
    \/ RunConsume
    \/ RunUpdate
    \/ RunSetOffset
    \/ \E r \in Readers, f \in Forwards : GetForward(r, f)

SpecFwd == Init /\ [][NextFwd]_vars

NextRC ==
    \/ \E s \in Sessions, c \in Registered : ClientStart(s, c[1], c[2], c[3])
    \/ \E s \in Sessions : ClientEnd(s)
    \/ CtlCrash
    \/ \E auth \in SUBSET Forwards : RelayConnect(auth)
    \/ RunRelayClients
    \/ RelayApplyClients
    \/ RelayDisconnect

SpecRC == Init /\ [][NextRC]_vars

NextRS ==
    \/ \E p \in ServersPublished : ServersPut(p[1], p[2])
    \/ \E f \in Forwards : ServersDel(f)
    \/ RsReadOffset
    \/ RsSnapStart
    \/ \E fault \in Faults : RsSnapReply(fault)
    \/ \E fault \in Faults : RsConsumeReply(fault)
    \/ RsApply
    \/ RsApplyErr
    \/ RsSetOffset
    \/ RsReconnect
    \/ RsCrash

SpecRS == Init /\ [][NextRS]_vars

NextAuth ==
    \/ \E c \in Conns, token \in Tokens, io \in StreamIO : ConnAuthenticate(c, token, io)
    \/ \E c \in Conns : ConnServeStream(c)
    \/ \E c \in Conns : ConnEnd(c)
    \/ \E c \in Conns : ConnNew(c)

SpecAuth == Init /\ [][NextAuth]_vars

NextGap ==
    \/ \E c \in Registered : GapPut(c[1], c[2], c[3])
    \/ \E c \in Registered : GapDel(c[1], c[2], c[3])
    \/ \E n \in 1..MaxLog : GapTrim(n)
    \/ GapServe
    \/ GapStore

SpecGap == Init /\ [][NextGap]_vars

NextId ==
    \/ GoiGet(Starter, "server-id")
    \/ \E v \in ServerNames : GoiInit(Starter, v)
    \/ GoiPut(Starter)
    \/ IdUp
    \/ \E hp \in HostPorts : IdAuthenticate(hp)
    \/ IdCrash

SpecId == Init /\ [][NextId]_vars

NextPool ==
    \/ \E name \in ServerNameSet, cs \in ClientSets : PoolRecord(name, cs)
    \/ PoolUpsert
    \/ \E name \in ServerNameSet : PoolHandshake(name)
    \/ PoolRestart

SpecPool == Init /\ [][NextPool]_vars

NextDirect ==
    \/ \E cert \in Certs : ExpectConn(cert)
    \/ \E q \in DirectConns, cert \in Certs : DirectAccept(q, cert)
    \/ \E q \in DirectConns : RunConnDequeue(q)
    \/ \E q \in DirectConns : RunConnSend(q)

SpecDirect == Init /\ [][NextDirect]_vars

NextLock ==
    \/ LkPublish
    \/ LkRunRLock
    \/ LkRunRUnlock
    \/ LkRunConsume
    \/ LkUpdateLock
    \/ LkUpdateUnlock
    \/ LkSetOffsetLock
    \/ LkSetOffsetUnlock
    \/ LkGetForwardRLock
    \/ LkGetForwardRUnlock
    \/ LkExpectLock
    \/ LkExpectUnlock
    \/ \E t \in {"expect"} \cup LockConns : LkClientCARLock(t)
    \/ \E t \in {"expect"} \cup LockConns : LkClientCARUnlock(t)
    \/ LkWaiter
    \/ \E q \in LockConns : LkDequeueLock(q)
    \/ \E q \in LockConns : LkDequeueUnlock(q)
    \/ \E q \in LockConns : LkSend(q)

SpecLock == Init /\ [][NextLock]_vars

NextClient ==
    \/ \E r \in Runners, out \in {"ok", "fail", "rejected"} : ClConnect(r, out)
    \/ \E r \in Runners, err \in {Nil, "error", "canceled"} : ClSessionEnd(r, err)
    \/ \E r \in Runners, case \in {"done", "timer"} : ClSelect(r, case)
    \/ \E r \in Runners : ClTimer(r)
    \/ \E r \in Runners : ClCancel(r)

SpecClient == Init /\ [][NextClient]_vars

NextSource ==
    \/ \E ok \in BOOLEAN : SrcOpenStream(ok)
    \/ SrcCancel
    \/ SrcSupervisor
    \/ \E changed \in BOOLEAN : SrcSelfListen(changed)
    \/ \E ok \in BOOLEAN : SrcWrite(ok)
    \/ \E msg \in {"peers", "unexpected", "error"} : SrcRead(msg)
    \/ SrcReadCancelled
    \/ SrcWait

\* the tasks of RunControl are scheduled, and a write on the stream
\* returns; nothing makes the peer send a response
SpecSourceLive ==
    /\ Init
    /\ [][NextSource]_vars
    /\ WF_vars(SrcSupervisor)
    /\ WF_vars(SrcSelfListen(FALSE))
    /\ WF_vars(\E ok \in BOOLEAN : SrcWrite(ok))
    /\ WF_vars(SrcReadCancelled)
    /\ WF_vars(SrcWait)

NextData ==
    \/ \E active \in ActiveLists : SrcRunConn(active)
    \/ \E ok \in BOOLEAN : SrcWriteConnect(ok)
    \/ \E r \in {"ok", "error", "unreadable"} : SrcReadResponse(r)
    \/ SrcJoinEnd
    \/ \E req \in {"connect", "connect-absent", "other", "unreadable"} : DstReadRequest(req)
    \/ \E dialOk \in BOOLEAN, writeOk \in BOOLEAN : DstRespond(dialOk, writeOk)
    \/ DstJoinEnd

SpecData == Init /\ [][NextData]_vars

NextRoute ==
    \/ \E o \in RouteOptions, addrs \in {"a1", "a2"} : RtSetDirectAddrs(o, addrs)
    \/ \E o \in RouteOptions : RtRunRelay(o)
    \/ \E o \in RouteOptions, ok \in BOOLEAN, relays \in {{"h1"}, {"h1", "h2"}} :
            RtRelayResponse(o, ok, relays)

SpecRoute == Init /\ [][NextRoute]_vars

NextListen ==
    \/ \E hp \in HostPorts : LsAccept(hp)
    \/ LsCancel
    \/ \E hp \in HostPorts, ok \in BOOLEAN : RlAuthenticate(hp, ok)
    \/ \E hp \in HostPorts, fault \in {"none", "stream", "cert", "type"} : RlServers(hp, fault)

SpecListen == Init /\ [][NextListen]_vars

\* the control server runs from its first start, with one client that
\* listens to the forward two relays serve
NextWatch ==
    \/ \E p \in WatchPublished : RelayServersPut(p[1], p[2], p[3])
    \/ \E p \in WatchPublished : RelayServersDel(p[1], p[2])
    \/ RunReadOffset
    \/ RunConsume
    \/ RunUpdate
    \/ RunSetOffset
    \/ \E r \in Readers : ListenStart(r, Watched)
    \/ \E r \in Readers : ListenConsume(r)
    \/ \E r \in Readers : ListenEnd(r)

SpecWatch == Init /\ [][NextWatch]_vars

NextStream ==
    \/ \E s \in Sessions, c \in Registered : ClientStart(s, c[1], c[2], c[3])
    \/ \E s \in Sessions : ClientEnd(s)
    \/ \E auth \in SUBSET Forwards : RelayConnect(auth)
    \/ StreamRead
    \/ StreamSnapConsume
    \/ StreamSnapReturn
    \/ StreamConsume
    \/ RelayApplyClients
    \/ RelayDisconnect

SpecStream == Init /\ [][NextStream]_vars

NextSwitch ==
    \/ \E id \in ControlIds : SwConnect(id)
    \/ \E closeOk \in BOOLEAN, loadOk \in BOOLEAN : SwRunConnection(closeOk, loadOk)
    \/ \E offset \in 0..MaxWater : SwClientsRound(offset)
    \/ SwSessionEnd

SpecSwitch == Init /\ [][NextSwitch]_vars

NextGroup ==
    \/ \E t \in GroupTasks : GroupWrite(t)
    \/ \E t \in GroupTasks : GroupRead(t)
    \/ \E t \in GroupTasks : GroupConsume(t)
    \/ \E t \in GroupTasks : GroupLogConsume(t)
    \/ \E t \in GroupTasks : GroupFail(t)
    \/ \E t \in GroupTasks : GroupWatch(t)
    \/ \E side \in Sides : GroupWait(side)
    \/ \E t \in GroupTasks : GroupData(t)

\* every goroutine that can take a step does; a record to consume and a
\* task's own failure may never come
SpecGroupLive ==
    /\ Init
    /\ [][NextGroup]_vars
    /\ \A t \in GroupTasks :
        /\ WF_vars(GroupWrite(t))
        /\ WF_vars(GroupRead(t))
        /\ WF_vars(GroupConsume(t))
        /\ WF_vars(GroupLogConsume(t))
        /\ WF_vars(GroupWatch(t))
    /\ \A side \in Sides : WF_vars(GroupWait(side))

NextReplay ==
    \/ \E c \in Registered : ReplayPut(c[1], c[2], c[3])
    \/ \E c \in Registered : ReplayDel(c[1], c[2], c[3])
    \/ ReplayClientsLog
    \/ \E fault \in {"panic", "error"} : ReplayServersLog(fault)
    \/ ReplayReconnect
    \/ ReplayRestart

\* the two log tasks and the restart after a panic take their steps
SpecReplayLive ==
    /\ Init
    /\ [][NextReplay]_vars
    /\ WF_vars(ReplayClientsLog)
    /\ WF_vars(\E fault \in {"panic", "error"} : ReplayServersLog(fault))
    /\ WF_vars(ReplayRestart)

NextCA ==
    \/ \E t \in CaCalls, cert \in Certs : CaExpect(t, cert)
    \/ \E q \in CaCalls, cert \in Certs : CaAccept(q, cert)
    \/ \E q \in CaCalls : CaDequeue(q)
    \/ \E q \in CaCalls : CaSend(q)
    \/ \E t \in CaCalls : CaUpdateRead(t)
    \/ \E t \in CaCalls : CaUpdateStore(t)

SpecCA == Init /\ [][NextCA]_vars

NextConns ==
    \/ \E r \in Runners, out \in {"ok", "fail", "rejected"} : CnConnect(r, out)
    \/ \E r \in Runners, cause \in EndCauses : CnSessionEnd(r, cause)
    \/ \E r \in Runners, c \in 1..MaxDials : CnPeerClose(r, c)
    \/ \E r \in Runners : CnCancel(r)

SpecConns == Init /\ [][NextConns]_vars

====
